---- MODULE Spec2Model ----
(***************************************************************************)
(* Model of the adblock core of webctl (src/webctl/daemon/adblock):        *)
(* the filter parser, the network matcher, the cosmetic and scriptlet      *)
(* handlers and the engine that owns them.                                 *)
(*                                                                         *)
(* A Python str is modelled as a sequence of one-character strings, so     *)
(* that split, find, lower, startswith, slicing and regex search are       *)
(* computed the way the code computes them.  None is the empty sequence    *)
(* for the optional fields that the code only ever tests for truthiness    *)
(* (hostname, redirect, source_hostname); an optional value of another     *)
(* type is <<>> (None) or <<v>>.                                           *)
(***************************************************************************)
EXTENDS Integers, Sequences, FiniteSets, TLC

(***************************************************************************)
(* str primitives                                                          *)
(***************************************************************************)
LowerLetters == <<"a","b","c","d","e","f","g","h","i","j","k","l","m",
                  "n","o","p","q","r","s","t","u","v","w","x","y","z">>
UpperLetters == <<"A","B","C","D","E","F","G","H","I","J","K","L","M",
                  "N","O","P","Q","R","S","T","U","V","W","X","Y","Z">>
Digits == {"0","1","2","3","4","5","6","7","8","9"}
Range(s) == {s[i] : i \in 1..Len(s)}
Min(S) == CHOOSE m \in S : \A n \in S : m <= n
Max(S) == CHOOSE m \in S : \A n \in S : n <= m
\* the least (greatest) position of a set of positions, 0 when there is none
MinOr0(S) == IF S = {} THEN 0 ELSE Min(S)
MaxOr0(S) == IF S = {} THEN 0 ELSE Max(S)

\* s[n:]
Drop(s, n) == SubSeq(s, n + 1, Len(s))
\* s[:n]
Take(s, n) == SubSeq(s, 1, n)
\* s.startswith(p)
StartsWith(s, p) == Len(p) <= Len(s) /\ Take(s, Len(p)) = p
\* s.endswith(p)
EndsWith(s, p) == Len(p) <= Len(s) /\ Drop(s, Len(s) - Len(p)) = p
\* c in s, for one character c
HasChar(s, c) == \E i \in 1..Len(s) : s[i] = c
\* s.count(c), for one character c
Count(s, c) == Cardinality({i \in 1..Len(s) : s[i] = c})
\* s.find(c, from): 1-based position of the first c at or after from, 0 if none
Find(s, c, from) == MinOr0({i \in from..Len(s) : i >= 1 /\ s[i] = c})
\* s.rfind(c): 1-based position of the last c, 0 if none
RFind(s, c) == MaxOr0({i \in 1..Len(s) : s[i] = c})
\* sub in s
Contains(s, sub) ==
    \E i \in 0..(Len(s) - Len(sub)) : SubSeq(s, i + 1, i + Len(sub)) = sub
\* s.find(sub): 1-based position of the first occurrence of sub, 0 if none
FindSub(s, sub) ==
    MinOr0({i \in 1..(Len(s) - Len(sub) + 1) : SubSeq(s, i, i + Len(sub) - 1) = sub})
\* c.lower()
UpperToLower ==
    [c \in Range(UpperLetters) |->
        LowerLetters[CHOOSE i \in 1..26 : UpperLetters[i] = c]]
LowerChar(c) == IF c \in DOMAIN UpperToLower THEN UpperToLower[c] ELSE c
\* s.lower()
Lower(s) == [i \in 1..Len(s) |-> LowerChar(s[i])]
\* s.strip()
Strip(s) ==
    IF \E i \in 1..Len(s) : s[i] # " "
    THEN SubSeq(s, Min({i \in 1..Len(s) : s[i] # " "}), Max({i \in 1..Len(s) : s[i] # " "}))
    ELSE <<>>
\* s.split(c)
RECURSIVE Split(_, _)
SplitAt(s, c, i) == IF i = 0 THEN <<s>> ELSE <<Take(s, i - 1)>> \o Split(Drop(s, i), c)
Split(s, c) == SplitAt(s, c, Find(s, c, 1))
\* sep.join(parts)
RECURSIVE Join(_, _)
Join(parts, sep) ==
    IF parts = <<>> THEN <<>>
    ELSE IF Len(parts) = 1 THEN parts[1]
    ELSE parts[1] \o sep \o Join(Tail(parts), sep)

None == <<>>
Some(v) == <<v>>

(***************************************************************************)
(* urllib.parse.urlparse(url).netloc                                       *)
(***************************************************************************)
Letters == Range(LowerLetters) \cup Range(UpperLetters)
SchemeChars == Letters \cup Digits \cup {"+", "-", "."}
\* s up to the first of the characters, all of s when it has none of them
UpTo(s, chars) ==
    IF \E k \in 1..Len(s) : s[k] \in chars
    THEN Take(s, Min({k \in 1..Len(s) : s[k] \in chars}) - 1)
    ELSE s
\* the netloc of a URL whose scheme and ":" were removed
_netloc(rest) ==
    IF StartsWith(rest, <<"/", "/">>) THEN UpTo(Drop(rest, 2), {"/", "?", "#"}) ELSE <<>>
\* i is the position of the first ":" of the URL, 0 when it has none
_after_scheme(url, i) ==
    IF /\ i > 1
       /\ url[1] \in Letters
       /\ \A j \in 1..(i - 1) : url[j] \in SchemeChars
    THEN Drop(url, i) ELSE url
urlparse_netloc(url) == _netloc(_after_scheme(url, Find(url, ":", 1)))
\* an unbalanced bracket in the netloc
_unbalanced(netloc) == HasChar(netloc, "[") # HasChar(netloc, "]")
\* urlparse raises ValueError("Invalid IPv6 URL") on an unbalanced bracket
urlparse_raises(url) == _unbalanced(urlparse_netloc(url))
\* the part of a netloc before the first ":"
_strip_port(netloc) == IF HasChar(netloc, ":") THEN Split(netloc, ":")[1] ELSE netloc
\* netloc.lower(), then the part before the first ":"
host_of_url(url) == _strip_port(Lower(urlparse_netloc(url)))

(***************************************************************************)
(* parser.py: network filters                                              *)
(***************************************************************************)
REQUEST_TYPE_MAP(modifier) ==
    CASE modifier = <<"s","c","r","i","p","t">> -> Some("script")
      [] modifier = <<"i","m","a","g","e">> -> Some("image")
      [] modifier = <<"s","t","y","l","e","s","h","e","e","t">> -> Some("stylesheet")
      [] modifier = <<"f","o","n","t">> -> Some("font")
      [] modifier = <<"m","e","d","i","a">> -> Some("media")
      [] modifier = <<"d","o","c","u","m","e","n","t">> -> Some("document")
      [] modifier = <<"s","u","b","d","o","c","u","m","e","n","t">> -> Some("subdocument")
      [] modifier = <<"x","m","l","h","t","t","p","r","e","q","u","e","s","t">> -> Some("xmlhttprequest")
      [] modifier = <<"x","h","r">> -> Some("xmlhttprequest")
      [] modifier = <<"w","e","b","s","o","c","k","e","t">> -> Some("websocket")
      [] modifier = <<"o","t","h","e","r">> -> Some("other")
      [] modifier = <<"o","b","j","e","c","t">> -> Some("other")
      [] modifier = <<"p","i","n","g">> -> Some("other")
      [] OTHER -> None

\* the elements of a "~"-marked list: (included, excluded)
RECURSIVE _split_domains(_, _)
_add_domain(acc, domain) ==
    IF domain = <<>> THEN acc
    ELSE IF StartsWith(domain, <<"~">>)
         THEN [acc EXCEPT !.excluded = @ \cup {Drop(domain, 1)}]
         ELSE [acc EXCEPT !.included = @ \cup {domain}]
_split_domains(items, acc) ==
    IF items = <<>> THEN acc
    ELSE _split_domains(Tail(items), _add_domain(acc, Lower(Strip(Head(items)))))
_parse_domains(domain_str) ==
    _split_domains(Split(domain_str, "|"), [included |-> {}, excluded |-> {}])

\* the branch of _parse_modifiers for a request type modifier
_add_type(f, req_type, negated) ==
    IF req_type = None THEN f
    ELSE IF negated
         THEN [f EXCEPT !.excluded_types = @ \cup {req_type[1]}]
         ELSE [f EXCEPT !.request_types = @ \cup {req_type[1]}]
\* the branch of _parse_modifiers for domain=
_add_domains(f, d) ==
    [f EXCEPT !.domains = @ \cup d.included,
              !.excluded_domains = @ \cup d.excluded]
\* the branches of _parse_modifiers for a modifier without its "~"
_apply_modifier(f, modifier, negated) ==
    IF StartsWith(modifier, <<"d","o","m","a","i","n","=">>)
    THEN _add_domains(f, _parse_domains(Drop(modifier, 7)))
    ELSE IF StartsWith(modifier, <<"r","e","d","i","r","e","c","t","=">>)
    THEN [f EXCEPT !.redirect = Drop(modifier, 9)]
    ELSE IF StartsWith(modifier, <<"r","e","d","i","r","e","c","t","-","r","u","l","e","=">>)
    THEN [f EXCEPT !.redirect = Drop(modifier, 14)]
    ELSE IF modifier \in {<<"t","h","i","r","d","-","p","a","r","t","y">>, <<"3","p">>}
    THEN [f EXCEPT !.third_party = Some(~negated)]
    ELSE IF modifier \in {<<"f","i","r","s","t","-","p","a","r","t","y">>, <<"1","p">>}
    THEN [f EXCEPT !.third_party = Some(negated)]
    ELSE _add_type(f, REQUEST_TYPE_MAP(modifier), negated)
\* the body of the loop of _parse_modifiers for a stripped, lowered modifier
_parse_lowered(f, lowered) ==
    IF lowered = <<>> THEN f
    ELSE IF StartsWith(lowered, <<"~">>) THEN _apply_modifier(f, Drop(lowered, 1), TRUE)
    ELSE _apply_modifier(f, lowered, FALSE)
_parse_modifier(f, raw_modifier) == _parse_lowered(f, Lower(Strip(raw_modifier)))

RECURSIVE _fold_modifiers(_, _)
_fold_modifiers(f, modifiers) ==
    IF modifiers = <<>> THEN f
    ELSE _fold_modifiers(_parse_modifier(f, Head(modifiers)), Tail(modifiers))
_parse_modifiers(modifier_str, filter_obj) ==
    _fold_modifiers(filter_obj, Split(modifier_str, ","))

\* the end of _extract_hostname_from_pattern
_valid_hostname(hostname) ==
    IF hostname # <<>> /\ HasChar(hostname, ".") /\ ~StartsWith(hostname, <<".">>)
    THEN Lower(hostname)
    ELSE None
_extract_hostname_from_pattern(pattern) ==
    _valid_hostname(UpTo(pattern, {"^", "/", "*", "?", "$"}))

\* NetworkFilter(...) for a pattern whose markers were all removed
_new_filter(line, is_exception, is_hostname_anchor, is_left_anchor, is_right_anchor, is_regex) ==
    [raw |-> line,
     pattern |-> line,
     is_exception |-> is_exception,
     is_hostname_anchor |-> is_hostname_anchor,
     is_left_anchor |-> is_left_anchor,
     is_right_anchor |-> is_right_anchor,
     is_plain |-> ~is_regex /\ ~HasChar(line, "*") /\ ~HasChar(line, "^"),
     is_regex |-> is_regex,
     hostname |-> IF is_hostname_anchor
                  THEN _extract_hostname_from_pattern(line) ELSE None,
     third_party |-> None,
     request_types |-> {},
     excluded_types |-> {},
     domains |-> {},
     excluded_domains |-> {},
     redirect |-> None,
     _regex |-> None]
\* parse_network_filter from the test for /regex/ on
_parse_regex(line, is_exception, is_hostname_anchor, is_left_anchor, is_right_anchor) ==
    _new_filter(line, is_exception, is_hostname_anchor, is_left_anchor, is_right_anchor,
                StartsWith(line, <<"/">>) /\ EndsWith(line, <<"/">>) /\ Len(line) > 2)
\* parse_network_filter from the test for a right anchor on
_parse_right_anchor(line, is_exception, is_hostname_anchor, is_left_anchor) ==
    IF EndsWith(line, <<"|">>)
    THEN _parse_regex(Take(line, Len(line) - 1), is_exception, is_hostname_anchor,
                      is_left_anchor, TRUE)
    ELSE _parse_regex(line, is_exception, is_hostname_anchor, is_left_anchor, FALSE)
\* parse_network_filter from the tests for "||" and "|" on
_parse_anchors(line, is_exception) ==
    IF StartsWith(line, <<"|", "|">>)
    THEN _parse_right_anchor(Drop(line, 2), is_exception, TRUE, FALSE)
    ELSE IF StartsWith(line, <<"|">>)
    THEN _parse_right_anchor(Drop(line, 1), is_exception, FALSE, TRUE)
    ELSE _parse_right_anchor(line, is_exception, FALSE, FALSE)
\* the position of the "$" that starts the modifiers, 0 when there is none
_modifier_pos(line) ==
    IF ~HasChar(line, "$") THEN 0
    ELSE IF StartsWith(line, <<"/">>) /\ Count(line, "/") >= 2
         THEN Find(line, "$", RFind(line, "/"))
         ELSE RFind(line, "$")
\* parse_network_filter with the modifiers taken off the line
_parse_pattern(line, modifier_str, is_exception) ==
    IF line = <<>> THEN None
    ELSE IF modifier_str # <<>>
         THEN Some(_parse_modifiers(modifier_str, _parse_anchors(line, is_exception)))
         ELSE Some(_parse_anchors(line, is_exception))
\* parse_network_filter from the split at modifier_pos on
_split_modifiers(line, modifier_pos, is_exception) ==
    IF modifier_pos # 0
    THEN _parse_pattern(Take(line, modifier_pos - 1), Drop(line, modifier_pos),
                        is_exception)
    ELSE _parse_pattern(line, <<>>, is_exception)
\* parse_network_filter after the test for "@@"
_parse_after_exception(line, is_exception) ==
    _split_modifiers(line, _modifier_pos(line), is_exception)
\* None, or Some(the NetworkFilter parsed from the line)
parse_network_filter(text) ==
    IF StartsWith(text, <<"@", "@">>)
    THEN _parse_after_exception(Drop(text, 2), TRUE)
    ELSE _parse_after_exception(text, FALSE)

(***************************************************************************)
(* Compiled patterns (re.Pattern).  A compiled pattern is a sequence of    *)
(* tokens: "lit" c (one character, compared case-insensitively because of  *)
(* re.IGNORECASE), "any" (.), "star" (x* for the atom x, c = "." meaning   *)
(* any character when dot is set), "sep" ((?:[^\w\-.]|$)), "bol" (^) and   *)
(* "eol" ($).  The dialect of /regex/ filters that is modelled has         *)
(* literals, ".", "\x" for a punctuation character x, "x*", "^" and "$";   *)
(* the strings re.compile rejects in it are an unbalanced "(", ")" or "[", *)
(* a "*" with nothing to repeat and a bad escape.  Groups, classes,        *)
(* alternation and the other quantifiers compile to a token that MatchAt   *)
(* does not evaluate.                                                      *)
(***************************************************************************)
Tok(t, c, dot) == [t |-> t, c |-> c, dot |-> dot]
Alnum == Letters \cup Digits
IsAlnum(c) == c \in Alnum
\* \w
IsWordChar(c) == IsAlnum(c) \/ c = "_"

\* the translation loop of _pattern_to_regex for a pattern that is not /regex/
RECURSIVE _escape_pattern(_, _)
_escape_pattern(pattern, i) ==
    IF i > Len(pattern) THEN <<>>
    ELSE LET c == pattern[i]
             tok == IF c = "*" THEN Tok("star", ".", TRUE)
                    ELSE IF c = "^" THEN Tok("sep", "^", FALSE)
                    ELSE IF c = "|"
                         THEN IF i = 1 THEN Tok("bol", "^", FALSE)
                              ELSE IF i = Len(pattern) THEN Tok("eol", "$", FALSE)
                              ELSE Tok("lit", "|", FALSE)
                    ELSE Tok("lit", c, FALSE)
         IN <<tok>> \o _escape_pattern(pattern, i + 1)

\* re.compile of the body of a /regex/ filter: [ok, toks]
RECURSIVE _compile_body(_, _, _)
_compile_body(body, i, acc) ==
    IF i > Len(body) THEN [ok |-> TRUE, toks |-> acc]
    ELSE LET c == body[i]
             starred == i < Len(body) /\ body[i + 1] = "*"
             step == IF starred THEN 2 ELSE 1
         IN IF c = "\\"
            THEN IF i = Len(body) \/ IsAlnum(body[i + 1])
                 THEN [ok |-> FALSE, toks |-> <<>>]
                 ELSE LET star2 == i + 1 < Len(body) /\ body[i + 2] = "*"
                      IN _compile_body(body, i + (IF star2 THEN 3 ELSE 2),
                             Append(acc, Tok(IF star2 THEN "star" ELSE "lit", body[i + 1], FALSE)))
            ELSE IF \/ c = "*"
                    \/ c = "(" /\ ~HasChar(Drop(body, i), ")")
                    \/ c = ")" /\ ~HasChar(Take(body, i - 1), "(")
                    \/ c = "[" /\ ~HasChar(Drop(body, i), "]")
            THEN [ok |-> FALSE, toks |-> <<>>]
            ELSE IF c \in {"(", ")", "[", "]", "+", "?", "{", "}", "|"}
            THEN _compile_body(body, i + 1, Append(acc, Tok("unmodelled", c, FALSE)))
            ELSE IF c = "^" THEN _compile_body(body, i + 1, Append(acc, Tok("bol", "^", FALSE)))
            ELSE IF c = "$" THEN _compile_body(body, i + 1, Append(acc, Tok("eol", "$", FALSE)))
            ELSE IF c = "."
            THEN _compile_body(body, i + step,
                     Append(acc, Tok(IF starred THEN "star" ELSE "any", ".", TRUE)))
            ELSE _compile_body(body, i + step,
                     Append(acc, Tok(IF starred THEN "star" ELSE "lit", c, FALSE)))

\* [ok |-> FALSE] when re.compile raises re.error
_pattern_to_regex(pattern, is_regex) ==
    IF is_regex
    THEN _compile_body(IF StartsWith(pattern, <<"/">>) /\ EndsWith(pattern, <<"/">>)
                       THEN SubSeq(pattern, 2, Len(pattern) - 1) ELSE pattern,
                       1, <<>>)
    ELSE [ok |-> TRUE, toks |-> _escape_pattern(pattern, 1)]

\* does the compiled pattern match s at position pos (from token i on)
RECURSIVE MatchAt(_, _, _, _)
MatchAt(toks, i, s, pos) ==
    IF i > Len(toks) THEN TRUE
    ELSE LET tk == toks[i]
             atom(ch) == tk.dot \/ LowerChar(ch) = LowerChar(tk.c)
         IN CASE tk.t = "lit" ->
                   pos <= Len(s) /\ atom(s[pos]) /\ MatchAt(toks, i + 1, s, pos + 1)
              [] tk.t = "any" ->
                   pos <= Len(s) /\ MatchAt(toks, i + 1, s, pos + 1)
              [] tk.t = "star" ->
                   \E k \in pos..(Len(s) + 1) :
                       /\ \A j \in pos..(k - 1) : atom(s[j])
                       /\ MatchAt(toks, i + 1, s, k)
              [] tk.t = "sep" ->
                   \/ /\ pos <= Len(s)
                      /\ ~(IsWordChar(s[pos]) \/ s[pos] \in {"-", "."})
                      /\ MatchAt(toks, i + 1, s, pos + 1)
                   \/ pos = Len(s) + 1 /\ MatchAt(toks, i + 1, s, pos)
              [] tk.t = "bol" -> pos = 1 /\ MatchAt(toks, i + 1, s, pos)
              [] tk.t = "eol" -> pos = Len(s) + 1 /\ MatchAt(toks, i + 1, s, pos)
\* regex.search(s) is not None
regex_search(toks, s) == \E pos \in 1..(Len(s) + 1) : MatchAt(toks, 1, s, pos)

\* NetworkFilter.get_regex: the cached pattern, else a fresh compilation
get_regex(f) ==
    IF f._regex # None THEN [ok |-> TRUE, toks |-> f._regex[1]]
    ELSE _pattern_to_regex(f.pattern, f.is_regex)

(***************************************************************************)
(* matcher.py                                                              *)
(***************************************************************************)
MatchResult(blocked, filter, redirect) ==
    [blocked |-> blocked, filter |-> filter, redirect |-> redirect]

\* the labels from each position on, joined
_join_suffixes(parts) ==
    [i \in 1..Len(parts) |-> Join(SubSeq(parts, i, Len(parts)), <<".">>)]
\* only the hostname itself, no parent domain
_get_hostname_variants_exact(hostname) == <<hostname>>
\* 'sub.example.com' -> <<'sub.example.com', 'example.com', 'com'>>
_get_hostname_variants(hostname) == _join_suffixes(Split(hostname, "."))

\* the last two labels, joined
_join_last_two(parts, hostname) ==
    IF Len(parts) >= 2
    THEN Join(SubSeq(parts, Len(parts) - 1, Len(parts)), <<".">>)
    ELSE hostname
\* the registrable domain _is_third_party compares
get_domain(hostname) == _join_last_two(Split(hostname, "."), hostname)
\* a comparison of the whole hostnames, not of the registrable domains
_is_third_party_whole_host(url_hostname, source_hostname) ==
    IF source_hostname = None THEN FALSE
    ELSE url_hostname # source_hostname
_is_third_party(url_hostname, source_hostname) ==
    IF source_hostname = None THEN FALSE
    ELSE get_domain(url_hostname) # get_domain(source_hostname)

\* the end of _domain_matches, on the set of the hostname variants
_variants_match(hostname_variants, included, excluded) ==
    IF hostname_variants \cap excluded # {} THEN FALSE
    ELSE IF included = {} THEN TRUE
    ELSE hostname_variants \cap included # {}
\* matcher._domain_matches that asks for an included domain in every case
_domain_matches_included_only(hostname, included, excluded) ==
    Range(_get_hostname_variants(Lower(hostname))) \cap included # {}
\* matcher._domain_matches
_domain_matches(hostname, included, excluded) ==
    IF included = {} /\ excluded = {} THEN TRUE
    ELSE _variants_match(Range(_get_hostname_variants(Lower(hostname))),
                         included, excluded)

\* url_host is the filter's hostname or a subdomain of it
_host_matches(url_host, hostname) ==
    url_host = hostname \/ EndsWith(url_host, <<".">> \o hostname)
\* the hostname test of _pattern_matches for a hostname-anchored filter
_anchor_matches(f, url) ==
    ~urlparse_raises(url) /\ _host_matches(host_of_url(url), f.hostname)

\* the plain pattern is found in the URL, whatever the case
_plain_matches(pattern, url) ==
    IF pattern # <<>> THEN Contains(Lower(url), Lower(pattern)) ELSE TRUE
\* a search that takes a pattern that did not compile for a match
_regex_matches_or_failed(regex, url) == regex.ok => regex_search(regex.toks, url)
\* the pattern compiled and is found in the URL
_regex_matches(regex, url) == regex.ok /\ regex_search(regex.toks, url)
_pattern_matches(f, url) ==
    IF f.is_hostname_anchor /\ ~_anchor_matches(f, url) THEN FALSE
    ELSE IF f.is_plain
    THEN IF f.is_hostname_anchor /\ f.hostname # None /\ StartsWith(f.pattern, f.hostname)
         THEN _plain_matches(Drop(f.pattern, Len(f.hostname)), url)
         ELSE _plain_matches(f.pattern, url)
    ELSE _regex_matches(get_regex(f), url)

\* the domain check of _filter_matches: skipped without a source hostname
_domain_constraint(f, source_hostname) ==
    source_hostname # None => _domain_matches(source_hostname, f.domains, f.excluded_domains)

\* the checks without that of the third-party flag of the filter
_constraints_match_any_party(f, request_type, source_hostname, is_third_party) ==
    /\ ~(f.request_types # {} /\ request_type \notin f.request_types)
    /\ request_type \notin f.excluded_types
    /\ _domain_constraint(f, source_hostname)
\* the checks of _filter_matches that come before the URL pattern
_constraints_match(f, request_type, source_hostname, is_third_party) ==
    /\ ~(f.third_party # None /\ f.third_party[1] # is_third_party)
    /\ ~(f.request_types # {} /\ request_type \notin f.request_types)
    /\ request_type \notin f.excluded_types
    /\ _domain_constraint(f, source_hostname)

_filter_matches(f, url, hostname, request_type, source_hostname, is_third_party) ==
    /\ _constraints_match(f, request_type, source_hostname, is_third_party)
    /\ _pattern_matches(f, url)

\* NetworkFilterMatcher.__init__
NetworkFilterMatcher ==
    [_hostname_index |-> <<>>,
     _exception_hostname_index |-> <<>>,
     _generic_filters |-> <<>>,
     _generic_exceptions |-> <<>>,
     _total_filters |-> 0,
     _hostname_indexed |-> 0]

\* index[key].append(f), creating the list when the key is new
IndexAppend(index, key, f) ==
    [k \in DOMAIN index \cup {key} |->
        IF k = key
        THEN (IF k \in DOMAIN index THEN Append(index[k], f) ELSE <<f>>)
        ELSE index[k]]
\* index.get(key, [])
IndexGet(index, key) == IF key \in DOMAIN index THEN index[key] ELSE <<>>

_add_filter(M, f) ==
    IF f.is_hostname_anchor /\ f.hostname # None
    THEN IF f.is_exception
         THEN [M EXCEPT !._total_filters = @ + 1,
                        !._exception_hostname_index = IndexAppend(@, f.hostname, f),
                        !._hostname_indexed = @ + 1]
         ELSE [M EXCEPT !._total_filters = @ + 1,
                        !._hostname_index = IndexAppend(@, f.hostname, f),
                        !._hostname_indexed = @ + 1]
    ELSE IF f.is_exception
         THEN [M EXCEPT !._total_filters = @ + 1,
                        !._generic_exceptions = Append(@, f)]
         ELSE [M EXCEPT !._total_filters = @ + 1,
                        !._generic_filters = Append(@, f)]

RECURSIVE add_filters(_, _)
add_filters(M, filters) ==
    IF filters = <<>> THEN M
    ELSE add_filters(_add_filter(M, Head(filters)), Tail(filters))

\* the filters in the order in which a search visits them: the buckets of
\* the hostname variants, most specific first, then the generic list
\* a scan that begins with the generic list
RECURSIVE _scan_order_generic_first(_, _, _, _)
_scan_order_generic_first(index, generic, variants, i) ==
    IF i > Len(variants) THEN (IF i = 1 THEN generic ELSE <<>>)
    ELSE (IF i = 1 THEN generic ELSE <<>>) \o IndexGet(index, variants[i])
         \o _scan_order_generic_first(index, generic, variants, i + 1)

RECURSIVE _scan_order(_, _, _, _)
_scan_order(index, generic, variants, i) ==
    IF i > Len(variants) THEN generic
    ELSE IndexGet(index, variants[i]) \o _scan_order(index, generic, variants, i + 1)

\* position in the scan of the first filter that matches, 0 if none
_first_match(order, url, hostname, request_type, source_hostname, is_third_party) ==
    MinOr0({k \in 1..Len(order) :
               _filter_matches(order[k], url, hostname, request_type,
                               source_hostname, is_third_party)})

\* a get_regex that stores the pattern compiled from no text at all
_cache_regex_of_nothing(f, regex) == [f EXCEPT !._regex = Some(<<>>)]
\* get_regex stores what it compiled
_cache_regex(f, regex) == IF regex.ok THEN [f EXCEPT !._regex = Some(regex.toks)] ELSE f
\* the filter after _filter_matches has run on it: get_regex fills the
\* _regex slot when the pattern is reached, is not plain and compiles
_visited(f, url, request_type, source_hostname, is_third_party) ==
    IF /\ _constraints_match(f, request_type, source_hostname, is_third_party)
       /\ ~(f.is_hostname_anchor /\ ~_anchor_matches(f, url))
       /\ ~f.is_plain
       /\ f._regex = None
    THEN _cache_regex(f, _pattern_to_regex(f.pattern, f.is_regex))
    ELSE f

\* what a search returns when the filter at position first is its first match
_match_at(order, first, url, request_type, source_hostname, is_third_party) ==
    IF first = 0 THEN None
    ELSE Some(_visited(order[first], url, request_type, source_hostname, is_third_party))
\* a search over the filters in scan order
_find_in(order, url, hostname, request_type, source_hostname, is_third_party) ==
    _match_at(order,
              _first_match(order, url, hostname, request_type, source_hostname,
                           is_third_party),
              url, request_type, source_hostname, is_third_party)
\* _find_blocking_filter / _find_exception over one index and one generic
\* list: None or Some(first matching filter)
_find_filter(index, generic, url, hostname, request_type, source_hostname, is_third_party) ==
    _find_in(_scan_order(index, generic, _get_hostname_variants(hostname), 1),
             url, hostname, request_type, source_hostname, is_third_party)
\* a search that leaves the hostname index out
_find_blocking_filter_generic_only(M, url, hostname, request_type, source_hostname, is_third_party) ==
    _find_in(M._generic_filters, url, hostname, request_type, source_hostname, is_third_party)
_find_blocking_filter(M, url, hostname, request_type, source_hostname, is_third_party) ==
    _find_filter(M._hostname_index, M._generic_filters,
                 url, hostname, request_type, source_hostname, is_third_party)
\* a search that leaves the generic exceptions out
_find_exception_indexed_only(M, url, hostname, request_type, source_hostname, is_third_party) ==
    _find_filter(M._exception_hostname_index, <<>>,
                 url, hostname, request_type, source_hostname, is_third_party)
_find_exception(M, url, hostname, request_type, source_hostname, is_third_party) ==
    _find_filter(M._exception_hostname_index, M._generic_exceptions,
                 url, hostname, request_type, source_hostname, is_third_party)

\* a result that does not pass the redirect name of the blocking filter on
_match_result_without_redirect(blocking_filter, exception) ==
    IF blocking_filter = None THEN MatchResult(FALSE, None, None)
    ELSE IF exception # None THEN MatchResult(FALSE, exception, None)
    ELSE MatchResult(TRUE, blocking_filter, None)
\* the end of should_block: the result, from what the two searches found
_match_result(blocking_filter, exception) ==
    IF blocking_filter = None THEN MatchResult(FALSE, None, None)
    ELSE IF exception # None THEN MatchResult(FALSE, exception, None)
    ELSE IF blocking_filter[1].redirect # None
         THEN MatchResult(TRUE, blocking_filter, blocking_filter[1].redirect)
         ELSE MatchResult(TRUE, blocking_filter, None)
\* should_block once the request is classified
_should_block_classified(M, url, hostname, request_type, source_hostname, is_third_party) ==
    _match_result(_find_blocking_filter(M, url, hostname, request_type,
                                        source_hostname, is_third_party),
                  _find_exception(M, url, hostname, request_type,
                                  source_hostname, is_third_party))
\* should_block once the hostname of the URL is known
_should_block_host(M, url, hostname, request_type, source_hostname) ==
    _should_block_classified(M, url, hostname, request_type, source_hostname,
                             _is_third_party(hostname, source_hostname))
\* should_block without its try block around urlparse
should_block_unguarded(M, url, request_type, source_hostname) ==
    _should_block_host(M, url, host_of_url(url), request_type, source_hostname)
\* the return value of should_block
should_block(M, url, request_type, source_hostname) ==
    IF urlparse_raises(url) THEN MatchResult(FALSE, None, None)
    ELSE _should_block_host(M, url, host_of_url(url), request_type, source_hostname)

\* number of filters a scan visits before the bucket of variants[i]
RECURSIVE _scan_offset(_, _, _)
_scan_offset(index, variants, i) ==
    IF i <= 1 THEN 0
    ELSE _scan_offset(index, variants, i - 1) + Len(IndexGet(index, variants[i - 1]))

\* the filter at position k of a scan whose first match is at position first
_seen(f, k, first, url, request_type, source_hostname, is_third_party) ==
    IF first = 0 \/ k <= first
    THEN _visited(f, url, request_type, source_hostname, is_third_party)
    ELSE f
\* the position of a bucket's key among the hostname variants
_rank(variants, key) == CHOOSE i \in 1..Len(variants) : variants[i] = key
\* one index and its generic list after a scan whose first match is at
\* position first
_scanned(index, generic, variants, first, url, request_type, source_hostname, is_third_party) ==
    [index |->
        [key \in DOMAIN index |->
            IF key \in Range(variants)
            THEN [j \in 1..Len(index[key]) |->
                     _seen(index[key][j],
                           _scan_offset(index, variants, _rank(variants, key)) + j,
                           first, url, request_type, source_hostname, is_third_party)]
            ELSE index[key]],
     generic |->
        [j \in 1..Len(generic) |->
            _seen(generic[j], _scan_offset(index, variants, Len(variants) + 1) + j,
                  first, url, request_type, source_hostname, is_third_party)]]
_searched_variants(index, generic, variants, url, hostname, request_type, source_hostname, is_third_party) ==
    _scanned(index, generic, variants,
             _first_match(_scan_order(index, generic, variants, 1), url, hostname,
                          request_type, source_hostname, is_third_party),
             url, request_type, source_hostname, is_third_party)
\* one index and its generic list after a search has run over them
_searched(index, generic, url, hostname, request_type, source_hostname, is_third_party) ==
    _searched_variants(index, generic, _get_hostname_variants(hostname), url, hostname,
                       request_type, source_hostname, is_third_party)

\* the matcher with the indices as the searches left them; the exceptions
\* are searched only when a blocking filter was found
_with_searched(M, blocking, exceptions, found) ==
    [M EXCEPT !._hostname_index = blocking.index,
              !._generic_filters = blocking.generic,
              !._exception_hostname_index = IF found THEN exceptions.index ELSE @,
              !._generic_exceptions = IF found THEN exceptions.generic ELSE @]
_after_classified(M, url, hostname, request_type, source_hostname, is_third_party) ==
    _with_searched(M,
        _searched(M._hostname_index, M._generic_filters, url, hostname,
                  request_type, source_hostname, is_third_party),
        _searched(M._exception_hostname_index, M._generic_exceptions, url, hostname,
                  request_type, source_hostname, is_third_party),
        _find_blocking_filter(M, url, hostname, request_type, source_hostname,
                              is_third_party) # None)
_after_host(M, url, hostname, request_type, source_hostname) ==
    _after_classified(M, url, hostname, request_type, source_hostname,
                      _is_third_party(hostname, source_hostname))
\* the matcher after should_block: the indices are unchanged but for the
\* _regex slots filled by the searches that ran
after_should_block(M, url, request_type, source_hostname) ==
    IF urlparse_raises(url) THEN M
    ELSE _after_host(M, url, host_of_url(url), request_type, source_hostname)

(***************************************************************************)
(* parser.py: cosmetic and scriptlet filters, filter lists                 *)
(***************************************************************************)
\* the domain part of a cosmetic or scriptlet line: (included, excluded)
_parse_domain_part(domain_part) ==
    IF domain_part = <<>> THEN [included |-> {}, excluded |-> {}]
    ELSE _split_domains(Split(domain_part, ","), [included |-> {}, excluded |-> {}])

ProceduralPrefixes ==
    {<<":","h","a","s","(">>, <<":","x","p","a","t","h","(">>, <<":","n","o","t","(">>,
     <<":","m","a","t","c","h","e","s","-","c","s","s","(">>, <<"+","j","s","(">>}

\* CosmeticFilter(...)
_new_cosmetic(text, selector, is_exception, d) ==
    [raw |-> text,
     selector |-> selector,
     is_exception |-> is_exception,
     domains |-> d.included,
     excluded_domains |-> d.excluded]
\* parse_cosmetic_filter from the tests of the stripped selector on
_parse_selector(text, domain_part, selector, is_exception) ==
    IF selector = <<>> THEN None
    ELSE IF \E prefix \in ProceduralPrefixes : StartsWith(selector, prefix) THEN None
    ELSE Some(_new_cosmetic(text, selector, is_exception, _parse_domain_part(domain_part)))
\* parse_cosmetic_filter from line.split(sep, 1) on; at is the position of
\* the first sep, 0 when there is none
_split_cosmetic(text, sep, at, is_exception) ==
    IF at = 0 THEN None
    ELSE _parse_selector(text, Take(text, at - 1), Strip(Drop(text, at + Len(sep) - 1)),
                         is_exception)
\* None, or Some(the CosmeticFilter parsed from the line)
parse_cosmetic_filter(text) ==
    IF Contains(text, <<"#","@","#">>)
    THEN _split_cosmetic(text, <<"#","@","#">>, FindSub(text, <<"#","@","#">>), TRUE)
    ELSE _split_cosmetic(text, <<"#","#">>, FindSub(text, <<"#","#">>), FALSE)

\* ScriptletFilter(...)
_new_scriptlet(text, parts, d) ==
    [raw |-> text,
     scriptlet_name |-> Strip(parts[1]),
     args |-> [i \in 1..(Len(parts) - 1) |-> Strip(parts[i + 1])],
     domains |-> d.included,
     excluded_domains |-> d.excluded]
\* parse_scriptlet_filter from the test for the closing parenthesis on
_parse_scriptlet_part(text, domain_part, scriptlet_part) ==
    IF ~EndsWith(scriptlet_part, <<")">>) THEN None
    ELSE Some(_new_scriptlet(text,
                             Split(Take(scriptlet_part, Len(scriptlet_part) - 1), ","),
                             _parse_domain_part(domain_part)))
\* parse_scriptlet_filter from the test of sep_idx on (0: "##+js(" not found)
_split_scriptlet(text, sep_idx) ==
    IF sep_idx = 0 THEN None
    ELSE _parse_scriptlet_part(text, Take(text, sep_idx - 1), Drop(text, sep_idx + 5))
\* None, or Some(the ScriptletFilter parsed from the line)
parse_scriptlet_filter(text) ==
    _split_scriptlet(text, FindSub(text, <<"#","#","+","j","s","(">>))

ParsedFilters ==
    [network_filters |-> <<>>, cosmetic_filters |-> <<>>, scriptlet_filters |-> <<>>]

\* content.splitlines(), for "\n" line ends
_drop_last_empty(pieces) ==
    IF pieces[Len(pieces)] = <<>> THEN Take(pieces, Len(pieces) - 1) ELSE pieces
splitlines(content) == _drop_last_empty(Split(content, "\n"))

\* the body of the loop of parse_filter_list, for one line
_parse_stripped(result, text) ==
    IF text = <<>> \/ StartsWith(text, <<"!">>) \/ StartsWith(text, <<"[">>) THEN result
    ELSE IF Contains(text, <<"#","#","+","j","s","(">>)
    THEN [result EXCEPT !.scriptlet_filters = @ \o parse_scriptlet_filter(text)]
    ELSE IF Contains(text, <<"#","#">>) \/ Contains(text, <<"#","@","#">>)
    THEN [result EXCEPT !.cosmetic_filters = @ \o parse_cosmetic_filter(text)]
    ELSE [result EXCEPT !.network_filters = @ \o parse_network_filter(text)]
_parse_line(result, raw_line) == _parse_stripped(result, Strip(raw_line))

RECURSIVE _parse_lines(_, _)
_parse_lines(result, lines) ==
    IF lines = <<>> THEN result
    ELSE _parse_lines(_parse_line(result, Head(lines)), Tail(lines))
parse_filter_list(content) == _parse_lines(ParsedFilters, splitlines(content))

\* lists is a dict in insertion order: a sequence of <<name, content>>
RECURSIVE parse_all_filter_lists(_)
_extend(parsed, rest) ==
    [network_filters |-> parsed.network_filters \o rest.network_filters,
     cosmetic_filters |-> parsed.cosmetic_filters \o rest.cosmetic_filters,
     scriptlet_filters |-> parsed.scriptlet_filters \o rest.scriptlet_filters]
parse_all_filter_lists(lists) ==
    IF lists = <<>> THEN ParsedFilters
    ELSE _extend(parse_filter_list(lists[1][2]), parse_all_filter_lists(Tail(lists)))

(***************************************************************************)
(* cosmetic.py                                                             *)
(***************************************************************************)
\* cosmetic._domain_matches
cosmetic_domain_matches(hostname, included, excluded) ==
    _variants_match(Range(_get_hostname_variants(Lower(hostname))), included, excluded)

\* CosmeticFilterHandler.__init__
CosmeticFilterHandler ==
    [_global_filters |-> <<>>,
     _global_exceptions |-> <<>>,
     _domain_filters |-> <<>>,
     _domain_exceptions |-> <<>>,
     _total_filters |-> 0]

\* index[domain].append(f) for every domain of the set
RECURSIVE IndexAppendAll(_, _, _)
IndexAppendAll(index, domains, f) ==
    IF domains = {} THEN index
    ELSE IndexAppendAll(IndexAppend(index, CHOOSE d \in domains : TRUE, f),
                        domains \ {CHOOSE d \in domains : TRUE}, f)

cosmetic_add_filter(H, f) ==
    IF f.domains # {}
    THEN IF f.is_exception
         THEN [H EXCEPT !._total_filters = @ + 1,
                        !._domain_exceptions = IndexAppendAll(@, f.domains, f)]
         ELSE [H EXCEPT !._total_filters = @ + 1,
                        !._domain_filters = IndexAppendAll(@, f.domains, f)]
    ELSE IF f.is_exception
         THEN [H EXCEPT !._total_filters = @ + 1, !._global_exceptions = Append(@, f)]
         ELSE [H EXCEPT !._total_filters = @ + 1, !._global_filters = Append(@, f)]

RECURSIVE cosmetic_add_filters(_, _)
cosmetic_add_filters(H, filters) ==
    IF filters = <<>> THEN H
    ELSE cosmetic_add_filters(cosmetic_add_filter(H, Head(filters)), Tail(filters))

\* a scan of the bucket of the hostname itself only
_domain_scan_exact(index, variants, i) ==
    IF i > Len(variants) THEN <<>> ELSE IndexGet(index, variants[i])

\* the filters of the buckets of the hostname variants, in scan order
RECURSIVE _domain_scan(_, _, _)
_domain_scan(index, variants, i) ==
    IF i > Len(variants) THEN <<>>
    ELSE IndexGet(index, variants[i]) \o _domain_scan(index, variants, i + 1)

\* the selectors of the filters of a list that pass the filter's own
\* domain constraints and are not in the exception set, in list order
RECURSIVE _collect_selectors(_, _, _)
_collect_selectors(filters, hostname, exception_selectors) ==
    IF filters = <<>> THEN <<>>
    ELSE IF /\ Head(filters).selector \notin exception_selectors
            /\ cosmetic_domain_matches(hostname, Head(filters).domains,
                                       Head(filters).excluded_domains)
    THEN <<Head(filters).selector>>
         \o _collect_selectors(Tail(filters), hostname, exception_selectors)
    ELSE _collect_selectors(Tail(filters), hostname, exception_selectors)

\* the selectors of the exceptions that pass their own domain constraints
_exception_selectors(exceptions, hostname) ==
    {exceptions[i].selector : i \in
        {j \in 1..Len(exceptions) :
            cosmetic_domain_matches(hostname, exceptions[j].domains,
                                    exceptions[j].excluded_domains)}}
\* get_selectors_for_domain from the collection of the selectors on
_selectors(H, hostname, variants, exception_selectors) ==
    _collect_selectors(H._global_filters, hostname, exception_selectors)
    \o _collect_selectors(_domain_scan(H._domain_filters, variants, 1),
                          hostname, exception_selectors)
_selectors_for_variants(H, hostname, variants) ==
    _selectors(H, hostname, variants,
               _exception_selectors(H._global_exceptions
                                    \o _domain_scan(H._domain_exceptions, variants, 1),
                                    hostname))
_selectors_for_lowered(H, hostname) ==
    _selectors_for_variants(H, hostname, _get_hostname_variants(hostname))
get_selectors_for_domain(H, raw_hostname) == _selectors_for_lowered(H, Lower(raw_hostname))

\* batch_size of get_css_for_domain
batch_size == 100
\* the selectors of a batch that get_css_for_domain keeps: Python reads the
\* test as '"' in sel or ("'" in sel and "\\" not in sel)
RECURSIVE _safe_selectors(_)
_safe_selectors(batch) ==
    IF batch = <<>> THEN <<>>
    ELSE IF HasChar(Head(batch), "\"") \/ (HasChar(Head(batch), "'") /\ ~HasChar(Head(batch), "\\"))
    THEN _safe_selectors(Tail(batch))
    ELSE <<Head(batch)>> \o _safe_selectors(Tail(batch))
\* the loop over the batches from the selector after position i on: the kept
\* selectors of each batch that keeps any
RECURSIVE _css_batches(_, _)
_css_batches(selectors, i) ==
    IF i >= Len(selectors) THEN <<>>
    ELSE (IF _safe_selectors(SubSeq(selectors, i + 1, Min({i + batch_size, Len(selectors)}))) # <<>>
          THEN <<_safe_selectors(SubSeq(selectors, i + 1, Min({i + batch_size, Len(selectors)})))>>
          ELSE <<>>)
         \o _css_batches(selectors, i + batch_size)
\* f"{selector_str} {{ display: none !important; }}"
display_none == <<" ","{"," ","d","i","s","p","l","a","y",":"," ","n","o","n","e"," ","!","i","m","p","o","r","t","a","n","t",";"," ","}">>
_css_rule(safe_selectors) == Join(safe_selectors, <<",", " ">>) \o display_none
\* "\n".join(css_rules)
_css_text(batches) == Join([k \in 1..Len(batches) |-> _css_rule(batches[k])], <<"\n">>)
\* get_css_for_domain from the selectors on: the kept selectors rule by
\* rule, and the text returned
_css_of(selectors) ==
    [selectors |-> selectors,
     rules |-> _css_batches(selectors, 0),
     css |-> IF selectors = <<>> THEN <<>> ELSE _css_text(_css_batches(selectors, 0))]
\* CosmeticFilterHandler.get_css_for_domain
get_css_for_domain(H, hostname) == _css_of(get_selectors_for_domain(H, hostname)).css

(***************************************************************************)
(* scriptlets.py: the index                                                *)
(***************************************************************************)
\* ScriptletHandler.__init__
ScriptletHandler == [_domain_scriptlets |-> <<>>, _total_scriptlets |-> 0]

\* an index that also files a filter under its excluded domains
scriptlet_add_filter_excluded_too(H, f) ==
    [H EXCEPT !._total_scriptlets = @ + 1,
              !._domain_scriptlets = IndexAppendAll(@, f.domains \cup f.excluded_domains, f)]
\* ScriptletHandler._add_filter
scriptlet_add_filter(H, f) ==
    [H EXCEPT !._total_scriptlets = @ + 1,
              !._domain_scriptlets = IndexAppendAll(@, f.domains, f)]

RECURSIVE scriptlet_add_filters(_, _)
scriptlet_add_filters(H, filters) ==
    IF filters = <<>> THEN H
    ELSE scriptlet_add_filters(scriptlet_add_filter(H, Head(filters)), Tail(filters))

\* the registered scriptlets: the names; the implementation registered under
\* a name is a JavaScript text of its own, which the name stands for
SCRIPTLETS ==
    {<<"a","b","o","r","t","-","o","n","-","p","r","o","p","e","r","t","y","-","r","e","a","d">>,
     <<"a","b","o","r","t","-","o","n","-","p","r","o","p","e","r","t","y","-","w","r","i","t","e">>,
     <<"s","e","t","-","c","o","n","s","t","a","n","t">>,
     <<"r","e","m","o","v","e","-","c","l","a","s","s">>,
     <<"n","o","-","s","e","t","T","i","m","e","o","u","t","-","i","f">>,
     <<"n","o","-","s","e","t","I","n","t","e","r","v","a","l","-","i","f">>,
     <<"n","o","-","f","e","t","c","h","-","i","f">>,
     <<"n","o","-","x","h","r","-","i","f">>,
     <<"a","d","d","E","v","e","n","t","L","i","s","t","e","n","e","r","-","d","e","f","u","s","e","r">>,
     <<"j","s","o","n","-","p","r","u","n","e">>,
     <<"n","o","w","e","b","r","t","c">>,
     <<"w","i","n","d","o","w",".","n","a","m","e","-","d","e","f","u","s","e","r">>,
     <<"n","o","e","v","a","l","-","i","f">>}

\* the aliases: name -> registered name
SCRIPTLET_ALIASES ==
    (<<"a","o","p","r">>
        :> <<"a","b","o","r","t","-","o","n","-","p","r","o","p","e","r","t","y","-","r","e","a","d">>)
    @@ (<<"a","o","p","w">>
        :> <<"a","b","o","r","t","-","o","n","-","p","r","o","p","e","r","t","y","-","w","r","i","t","e">>)
    @@ (<<"s","e","t">>
        :> <<"s","e","t","-","c","o","n","s","t","a","n","t">>)
    @@ (<<"r","c">>
        :> <<"r","e","m","o","v","e","-","c","l","a","s","s">>)
    @@ (<<"n","o","s","t","i","f">>
        :> <<"n","o","-","s","e","t","T","i","m","e","o","u","t","-","i","f">>)
    @@ (<<"n","o","s","i","i","f">>
        :> <<"n","o","-","s","e","t","I","n","t","e","r","v","a","l","-","i","f">>)
    @@ (<<"a","e","l","d">>
        :> <<"a","d","d","E","v","e","n","t","L","i","s","t","e","n","e","r","-","d","e","f","u","s","e","r">>)
    @@ (<<"n","a","n","o","-","s","e","t","I","n","t","e","r","v","a","l","-","b","o","o","s","t","e","r">>
        :> <<"n","o","-","s","e","t","I","n","t","e","r","v","a","l","-","i","f">>)
    @@ (<<"n","a","n","o","-","s","e","t","T","i","m","e","o","u","t","-","b","o","o","s","t","e","r">>
        :> <<"n","o","-","s","e","t","T","i","m","e","o","u","t","-","i","f">>)

\* scriptlets._domain_matches
scriptlet_domain_matches(hostname, included, excluded) ==
    IF Range(_get_hostname_variants(Lower(hostname))) \cap excluded # {} THEN FALSE
    ELSE IF included = {} THEN FALSE
    ELSE Range(_get_hostname_variants(Lower(hostname))) \cap included # {}

\* the name under which the implementation is looked up
_scriptlet_impl_name(name) ==
    IF name \in DOMAIN SCRIPTLET_ALIASES THEN SCRIPTLET_ALIASES[name] ELSE name
\* ", ".join(f"'{arg}'" for arg in args)
_args_str(args) ==
    Join([i \in 1..Len(args) |-> <<"'">> \o args[i] \o <<"'">>], <<",", " ">>)
\* f"({impl})({args_str});": the implementation and the text of its arguments
_build_script(name, args) ==
    IF name \in SCRIPTLETS THEN <<[impl |-> name, args_str |-> _args_str(args)]>>
    ELSE <<>>
\* the scripts of the filters of a list that pass their domain constraints
\* and name a registered scriptlet, in list order
RECURSIVE _collect_scripts(_, _)
_collect_scripts(filters, hostname) ==
    IF filters = <<>> THEN <<>>
    ELSE (IF scriptlet_domain_matches(hostname, Head(filters).domains,
                                      Head(filters).excluded_domains)
          THEN _build_script(_scriptlet_impl_name(Head(filters).scriptlet_name),
                             Head(filters).args)
          ELSE <<>>)
         \o _collect_scripts(Tail(filters), hostname)
_scripts_for_lowered(H, hostname) ==
    _collect_scripts(_domain_scan(H._domain_scriptlets, _get_hostname_variants(hostname), 1),
                     hostname)
\* ScriptletHandler.get_scripts_for_domain
get_scripts_for_domain(H, raw_hostname) == _scripts_for_lowered(H, Lower(raw_hostname))

(***************************************************************************)
(* resources.py                                                            *)
(***************************************************************************)
\* the registered resources: name -> content type (the body is not modelled)
RESOURCES ==
    (<<"1","x","1",".","g","i","f">> :> "image/gif")
    @@ (<<"2","x","2",".","p","n","g">> :> "image/png")
    @@ (<<"3","x","2",".","p","n","g">> :> "image/png")
    @@ (<<"3","2","x","3","2",".","p","n","g">> :> "image/png")
    @@ (<<"n","o","o","p","j","s">> :> "application/javascript")
    @@ (<<"n","o","o","p","j","s","o","n">> :> "application/json")
    @@ (<<"n","o","o","p","t","e","x","t">> :> "text/plain")
    @@ (<<"n","o","o","p","f","r","a","m","e">> :> "text/html")
    @@ (<<"n","o","o","p","m","p","3","-","0",".","1","s">> :> "audio/mpeg")
    @@ (<<"n","o","o","p","m","p","4","-","1","s">> :> "video/mp4")
    @@ (<<"g","o","o","g","l","e","-","a","n","a","l","y","t","i","c","s",".","c","o","m","/","a","n","a","l","y","t","i","c","s",".","j","s">> :> "application/javascript")
    @@ (<<"g","o","o","g","l","e","t","a","g","m","a","n","a","g","e","r",".","c","o","m","/","g","t","a","g","/","j","s">> :> "application/javascript")
    @@ (<<"g","o","o","g","l","e","t","a","g","m","a","n","a","g","e","r",".","c","o","m","/","g","t","m",".","j","s">> :> "application/javascript")
    @@ (<<"d","o","u","b","l","e","c","l","i","c","k",".","n","e","t","/","i","n","s","t","r","e","a","m","/","a","d","_","s","t","a","t","u","s",".","j","s">> :> "application/javascript")

\* the aliases: name -> registered name
RESOURCE_ALIASES ==
    (<<"1","x","1","-","t","r","a","n","s","p","a","r","e","n","t",".","g","i","f">>
        :> <<"1","x","1",".","g","i","f">>)
    @@ (<<"1","x","1",".","t","r","a","n","s","p","a","r","e","n","t",".","g","i","f">>
        :> <<"1","x","1",".","g","i","f">>)
    @@ (<<"n","o","o","p","-","1","x","1",".","g","i","f">>
        :> <<"1","x","1",".","g","i","f">>)
    @@ (<<"2","x","2","-","t","r","a","n","s","p","a","r","e","n","t",".","p","n","g">>
        :> <<"2","x","2",".","p","n","g">>)
    @@ (<<"2","x","2",".","t","r","a","n","s","p","a","r","e","n","t",".","p","n","g">>
        :> <<"2","x","2",".","p","n","g">>)
    @@ (<<"n","o","o","p","-","2","x","2",".","p","n","g">>
        :> <<"2","x","2",".","p","n","g">>)
    @@ (<<"3","x","2","-","t","r","a","n","s","p","a","r","e","n","t",".","p","n","g">>
        :> <<"3","x","2",".","p","n","g">>)
    @@ (<<"3","x","2",".","t","r","a","n","s","p","a","r","e","n","t",".","p","n","g">>
        :> <<"3","x","2",".","p","n","g">>)
    @@ (<<"3","2","x","3","2","-","t","r","a","n","s","p","a","r","e","n","t",".","p","n","g">>
        :> <<"3","2","x","3","2",".","p","n","g">>)
    @@ (<<"3","2","x","3","2",".","t","r","a","n","s","p","a","r","e","n","t",".","p","n","g">>
        :> <<"3","2","x","3","2",".","p","n","g">>)
    @@ (<<"n","o","o","p",".","j","s">>
        :> <<"n","o","o","p","j","s">>)
    @@ (<<"n","o","o","p","j","s",".","j","s">>
        :> <<"n","o","o","p","j","s">>)
    @@ (<<"n","o","o","p","-","v","m","a","p","1",".","0",".","x","m","l">>
        :> <<"n","o","o","p","t","e","x","t">>)
    @@ (<<"n","o","o","p","-","0",".","1","s",".","m","p","3">>
        :> <<"n","o","o","p","m","p","3","-","0",".","1","s">>)
    @@ (<<"n","o","o","p","m","p","3">>
        :> <<"n","o","o","p","m","p","3","-","0",".","1","s">>)
    @@ (<<"n","o","o","p","-","1","s",".","m","p","4">>
        :> <<"n","o","o","p","m","p","4","-","1","s">>)
    @@ (<<"n","o","o","p","m","p","4">>
        :> <<"n","o","o","p","m","p","4","-","1","s">>)
    @@ (<<"n","o","o","p",".","h","t","m","l">>
        :> <<"n","o","o","p","f","r","a","m","e">>)
    @@ (<<"n","o","o","p","f","r","a","m","e",".","h","t","m","l">>
        :> <<"n","o","o","p","f","r","a","m","e">>)
    @@ (<<"g","o","o","g","l","e","-","a","n","a","l","y","t","i","c","s","_","a","n","a","l","y","t","i","c","s",".","j","s">>
        :> <<"g","o","o","g","l","e","-","a","n","a","l","y","t","i","c","s",".","c","o","m","/","a","n","a","l","y","t","i","c","s",".","j","s">>)
    @@ (<<"g","o","o","g","l","e","s","y","n","d","i","c","a","t","i","o","n","_","a","d","s","b","y","g","o","o","g","l","e",".","j","s">>
        :> <<"n","o","o","p","j","s">>)
    @@ (<<"g","o","o","g","l","e","t","a","g","s","e","r","v","i","c","e","s","_","g","p","t",".","j","s">>
        :> <<"n","o","o","p","j","s">>)
    @@ (<<"s","c","o","r","e","c","a","r","d","r","e","s","e","a","r","c","h","_","b","e","a","c","o","n",".","j","s">>
        :> <<"n","o","o","p","j","s">>)
    @@ (<<"o","u","t","b","r","a","i","n","-","w","i","d","g","e","t",".","j","s">>
        :> <<"n","o","o","p","j","s">>)
    @@ (<<"a","m","p","p","r","o","j","e","c","t","_","v","0",".","j","s">>
        :> <<"n","o","o","p","j","s">>)
    @@ (<<"a","m","a","z","o","n","_","a","d","s",".","j","s">>
        :> <<"n","o","o","p","j","s">>)
    @@ (<<"m","o","n","k","e","y","b","r","o","k","e","r",".","j","s">>
        :> <<"n","o","o","p","j","s">>)
    @@ (<<"n","o","b","a","b",".","j","s">>
        :> <<"n","o","o","p","j","s">>)
    @@ (<<"n","o","b","a","b","2",".","j","s">>
        :> <<"n","o","o","p","j","s">>)

\* the content type of the resource, or None when the name is not registered
get_redirect_resource(name) ==
    LET resolved == IF name \in DOMAIN RESOURCE_ALIASES THEN RESOURCE_ALIASES[name]
                    ELSE name
    IN IF resolved \in DOMAIN RESOURCES THEN Some(RESOURCES[resolved]) ELSE None

(***************************************************************************)
(* filter_lists.py.  A dict is the sequence of its <<key, value>> pairs in *)
(* insertion order.                                                        *)
(***************************************************************************)
FILTER_LISTS ==
    {"easylist", "easyprivacy", "ublock-filters", "ublock-badware", "ublock-privacy",
     "ublock-annoyances"}
DEFAULT_LISTS ==
    <<"easylist", "easyprivacy", "ublock-filters", "ublock-badware", "ublock-privacy">>

DictKeys(dict) == {dict[i][1] : i \in 1..Len(dict)}
DictGet(dict, key) == dict[CHOOSE i \in 1..Len(dict) : dict[i][1] = key][2]
\* dict[key] = value
DictSet(dict, key, value) ==
    IF key \in DictKeys(dict)
    THEN [i \in 1..Len(dict) |-> IF dict[i][1] = key THEN <<key, value>> ELSE dict[i]]
    ELSE Append(dict, <<key, value>>)

\* FilterListManager.__init__
FilterListManager == [_lists |-> None]

\* {name: self._lists[name] for name in list_names if name in self._lists}
RECURSIVE _requested_lists(_, _)
_requested_lists(cached, list_names) ==
    IF list_names = <<>> THEN <<>>
    ELSE IF Head(list_names) \in DictKeys(cached)
    THEN <<<<Head(list_names), DictGet(cached, Head(list_names))>>>>
         \o _requested_lists(cached, Tail(list_names))
    ELSE _requested_lists(cached, Tail(list_names))

\* the body of the loop of get_filter_lists; store gives what the cache
\* directory holds (store.cache) and what the remote serves (store.remote),
\* each a dict of name -> content
_load_list(lists, name, store) ==
    IF name \notin FILTER_LISTS THEN lists
    ELSE IF name \in DictKeys(store.cache)
    THEN DictSet(lists, name, DictGet(store.cache, name))
    ELSE IF name \in DictKeys(store.remote) /\ DictGet(store.remote, name) # <<>>
    THEN DictSet(lists, name, DictGet(store.remote, name))
    ELSE lists
RECURSIVE _load_lists(_, _, _)
_load_lists(lists, list_names, store) ==
    IF list_names = <<>> THEN lists
    ELSE _load_lists(_load_list(lists, Head(list_names), store), Tail(list_names), store)

\* self._lists = lists; return lists
_store_lists(M, lists) == [manager |-> [M EXCEPT !._lists = Some(lists)], lists |-> lists]
\* get_filter_lists for the names given or defaulted
_get_lists(M, names, store) ==
    IF M._lists # None
    THEN [manager |-> M, lists |-> _requested_lists(M._lists[1], names)]
    ELSE _store_lists(M, _load_lists(<<>>, names, store))
\* FilterListManager.get_filter_lists: the manager afterwards and the dict
\* returned
get_filter_lists(M, list_names, store) ==
    IF list_names = None THEN _get_lists(M, DEFAULT_LISTS, store)
    ELSE _get_lists(M, list_names[1], store)

(***************************************************************************)
(* engine.py                                                               *)
(***************************************************************************)
PLAYWRIGHT_TYPE_MAP(resource_type) ==
    CASE resource_type = "document" -> "document"
      [] resource_type = "stylesheet" -> "stylesheet"
      [] resource_type = "image" -> "image"
      [] resource_type = "media" -> "media"
      [] resource_type = "font" -> "font"
      [] resource_type = "script" -> "script"
      [] resource_type = "texttrack" -> "other"
      [] resource_type = "xhr" -> "xmlhttprequest"
      [] resource_type = "fetch" -> "xmlhttprequest"
      [] resource_type = "eventsource" -> "other"
      [] resource_type = "websocket" -> "websocket"
      [] resource_type = "manifest" -> "other"
      [] resource_type = "other" -> "other"
      [] OTHER -> "other"

\* AdblockEngine.__init__; _init_lock is TRUE while the lock is held
AdblockEngine(list_names) ==
    [_list_names |-> list_names,
     _network_matcher |-> NetworkFilterMatcher,
     _cosmetic_handler |-> CosmeticFilterHandler,
     _scriptlet_handler |-> ScriptletHandler,
     _initialized |-> FALSE,
     _init_lock |-> FALSE,
     _requests_checked |-> 0,
     _requests_blocked |-> 0,
     _requests_redirected |-> 0]

\* initialize from the calls of add_filters on
_add_parsed(E, parsed) ==
    [E EXCEPT
        !._network_matcher = add_filters(@, parsed.network_filters),
        !._cosmetic_handler = cosmetic_add_filters(@, parsed.cosmetic_filters),
        !._scriptlet_handler = scriptlet_add_filters(@, parsed.scriptlet_filters),
        !._initialized = TRUE,
        !._init_lock = FALSE]

\* an initialize that gives up on an empty dict without setting the flag
_finish_initialize_unflagged(E, lists) ==
    IF lists = <<>>
    THEN [E EXCEPT !._init_lock = FALSE]
    ELSE _add_parsed(E, parse_all_filter_lists(lists))

\* initialize, from the return of get_filter_lists to the release of the lock
_finish_initialize(E, lists) ==
    IF lists = <<>>
    THEN [E EXCEPT !._initialized = TRUE, !._init_lock = FALSE]
    ELSE _add_parsed(E, parse_all_filter_lists(lists))

\* _handle_route: the source hostname taken from the frame of the request;
\* frame is None, or Some(frame.url)
_source_hostname(frame) ==
    IF frame = None THEN None
    ELSE IF frame[1] = <<>> THEN None
    ELSE IF urlparse_raises(frame[1]) THEN None
    ELSE _strip_port(Lower(urlparse_netloc(frame[1])))

\* url.startswith(("http://", "https://"))
_is_http(url) ==
    \/ StartsWith(url, <<"h","t","t","p",":","/","/">>)
    \/ StartsWith(url, <<"h","t","t","p","s",":","/","/">>)

\* _handle_route from the test of the result on, up to the await it stops
\* at: the engine afterwards, the result and the call on the route awaited
_act_on(E, result) ==
    IF result.blocked
    THEN IF result.redirect # None /\ get_redirect_resource(result.redirect) # None
         THEN [engine |-> [E EXCEPT !._requests_redirected = @ + 1],
               result |-> Some(result), awaiting |-> "fulfill"]
         ELSE [engine |-> [E EXCEPT !._requests_blocked = @ + 1],
               result |-> Some(result), awaiting |-> "abort"]
    ELSE [engine |-> E, result |-> Some(result), awaiting |-> "continue_"]
\* _handle_route from the call of should_block on
_check(E, url, resource_type, source_hostname) ==
    _act_on([E EXCEPT
                !._requests_checked = @ + 1,
                !._network_matcher = after_should_block(@, url, resource_type,
                                                        source_hostname)],
            should_block(E._network_matcher, url, resource_type, source_hostname))
\* _handle_route up to the await it stops at; the result is None when the
\* URL is skipped
_handle_route(E, req) ==
    IF ~_is_http(req.url)
    THEN [engine |-> E, result |-> None, awaiting |-> "continue_"]
    ELSE _check(E, req.url, PLAYWRIGHT_TYPE_MAP(req.resource_type),
                _source_hostname(req.frame))

\* _handle_route after route.fulfill raised: the request is blocked instead
_fulfill_failed(E) == [E EXCEPT !._requests_blocked = @ + 1]

(***************************************************************************)
(* The inputs of the model: filter lines, URLs, request types and source   *)
(* hostnames.  A hostname is written as its sequence of labels, so that    *)
(* the properties can speak of labels without parsing; HostStr gives the   *)
(* string the program sees.                                                *)
(***************************************************************************)
HostStr(labels) == Join(labels, <<".">>)
l_com == <<"c","o","m">>
l_ads == <<"a","d","s">>
l_sub == <<"s","u","b">>
l_notads == <<"n","o","t","a","d","s">>
l_example == <<"e","x","a","m","p","l","e">>
l_cdn == <<"c","d","n">>
h_ads_com == <<l_ads, l_com>>
h_sub_ads_com == <<l_sub, l_ads, l_com>>
h_notads_com == <<l_notads, l_com>>
h_example_com == <<l_example, l_com>>
h_ads_example_com == <<l_ads, l_example, l_com>>
h_cdn_com == <<l_cdn, l_com>>

https == <<"h","t","t","p","s",":","/","/">>
x_js == <<"x",".","j","s">>
third_party_script ==
    <<"$","t","h","i","r","d","-","p","a","r","t","y",",","s","c","r","i","p","t">>
not_third_party == <<"$","~","t","h","i","r","d","-","p","a","r","t","y">>
redirect_noopjs == <<"$","r","e","d","i","r","e","c","t","=","n","o","o","p","j","s">>
redirect_nope == <<"$","r","e","d","i","r","e","c","t","=","n","o","p","e">>

\* ||H^ for the hostname H
AnchorLine(labels) == <<"|","|">> \o HostStr(labels) \o <<"^">>
\* ||ads.com^
LineAds == AnchorLine(h_ads_com)
\* ||example.com^
LineExample == AnchorLine(h_example_com)
\* ||ads.example.com^$third-party,script
LineThirdParty == AnchorLine(h_ads_example_com) \o third_party_script
\* ||ads.com^$~third-party
LineFirstParty == AnchorLine(h_ads_com) \o not_third_party
\* @@||ads.com/ok
LineAllowOk == <<"@","@","|","|">> \o HostStr(h_ads_com) \o <<"/","o","k">>
\* @@x.js
LineAllowJs == <<"@","@">> \o x_js
\* /banner
LineBanner == <<"/","b","a","n","n","e","r">>
\* ||cdn.com/a.js$redirect=noopjs
LineRedirect ==
    <<"|","|">> \o HostStr(h_cdn_com) \o <<"/","a",".","j","s">> \o redirect_noopjs
\* x.js$redirect=nope
LineRedirectUnknown == x_js \o redirect_nope

NetLines ==
    {LineAds, LineExample, LineThirdParty, LineFirstParty, LineAllowOk, LineAllowJs,
     LineBanner, LineRedirect, LineRedirectUnknown}

\* scheme://host[:port]/path
UrlParts ==
    {[host |-> h_ads_com, port |-> <<>>, path |-> <<"/">> \o x_js],
     [host |-> h_sub_ads_com, port |-> <<>>, path |-> <<"/","o","k","/">> \o x_js],
     [host |-> h_notads_com, port |-> <<>>, path |-> <<"/">> \o x_js],
     [host |-> h_ads_example_com, port |-> <<>>, path |-> <<"/">> \o x_js],
     [host |-> h_ads_com, port |-> <<":","8","0","8","0">>,
      path |-> <<"/","b","a","n","n","e","r">>],
     [host |-> h_cdn_com, port |-> <<>>, path |-> <<"/","a",".","j","s">>]}
UrlStr(parts) == https \o HostStr(parts.host) \o parts.port \o parts.path
Urls == {UrlStr(parts) : parts \in UrlParts}

\* a RequestType, or "None" when the caller gives none
RequestTypes == {"None", "script", "image"}
\* the labels of a source hostname; no label at all when the caller gives none
SourceHosts == {<<>>, h_example_com, h_ads_example_com, h_ads_com}
Sources == {HostStr(labels) : labels \in SourceHosts}

\* most filters a matcher holds
MaxFilters == 2
\* longest list given to one add_filters call
MaxBatch == 2
\* most filters a cosmetic handler holds
MaxCosmetic == 3
\* coroutines calling initialize or setup_page
NumTasks == 2
\* requests a page hands to _handle_route
MaxRoutes == 1

\* most filters a scriptlet handler is given
MaxScriptlets == 3
\* coroutines calling get_adblock_engine and setting up a page each
NumCallers == 2
\* engines the singleton accessor creates
MaxEngines == 2

(***************************************************************************)
(* The state.  matcher, cosmetic and scriptlets are a NetworkFilterMatcher, *)
(* a CosmeticFilterHandler and a ScriptletHandler used on their own, as    *)
(* the unit tests use them; loaded_lists is the dict of source lists whose *)
(* network filters the matcher holds; request is the request (or the       *)
(* hostname) under test, call the last operation called on them and ret    *)
(* the value it returned.  engine is an AdblockEngine used directly,       *)
(* manager the FilterListManager singleton, tasks the coroutines calling   *)
(* initialize or setup_page on engine, routes the runs of _handle_route,   *)
(* and loads counts the passes that added the parsed lists to the          *)
(* handlers.  _adblock_engine and _engine_lock are the globals of          *)
(* engine.py, engines the AdblockEngine objects get_adblock_engine has     *)
(* created (_adblock_engine refers to one by its position), callers the    *)
(* coroutines that get the singleton and set up their page with it, and    *)
(* pages the pages of the callers.                                         *)
(***************************************************************************)
VARIABLES matcher, cosmetic, scriptlets, loaded_lists, request, call, ret, engine, manager, tasks, routes, loads, _adblock_engine, _engine_lock, engines, callers, pages

vars == <<matcher, cosmetic, scriptlets, loaded_lists, request, call, ret, engine, manager, tasks, routes, loads, _adblock_engine, _engine_lock, engines, callers, pages>>
unit_vars == <<matcher, cosmetic, scriptlets, loaded_lists, request, call, ret>>
engine_vars == <<engine, manager, tasks, routes, loads>>
singleton_vars == <<_adblock_engine, _engine_lock, engines, callers, pages>>

\* no coroutine has been started and no route handled
NoTask == [pc |-> "idle", op |-> "none", routed |-> FALSE]
NoRoute == [pc |-> "none", request |-> None, result |-> None, outcome |-> "none",
            checked |-> 0, blocked |-> 0, redirected |-> 0]
EngineUnused ==
    /\ engine = AdblockEngine(None)
    /\ manager = FilterListManager
    /\ tasks = [t \in 1..NumTasks |-> NoTask]
    /\ routes = [r \in 1..MaxRoutes |-> NoRoute]
    /\ loads = 0

\* a caller that has not started, and a page no handler was installed on
NoCaller == [pc |-> "idle", list_names |-> None, ref |-> None]
NoPage == [handler |-> None, decided_by |-> None, result |-> None, stale |-> FALSE]
SingletonUnused ==
    /\ _adblock_engine = None
    /\ _engine_lock = FALSE
    /\ engines = <<>>
    /\ callers = [c \in 1..NumCallers |-> NoCaller]
    /\ pages = [c \in 1..NumCallers |-> NoPage]
\* the handlers used on their own are as constructed and nothing is under test
UnitUnused ==
    /\ matcher = NetworkFilterMatcher
    /\ cosmetic = CosmeticFilterHandler
    /\ scriptlets = ScriptletHandler
    /\ loaded_lists = <<>>
    /\ request = None
    /\ call = "none"
    /\ ret = None

(***************************************************************************)
(* A NetworkFilterMatcher used on its own: filters are parsed from lines   *)
(* and added, and should_block is called on the request under test.        *)
(***************************************************************************)
Requests == [url : Urls, request_type : RequestTypes, source_hostname : Sources]

\* parse_network_filter on every line of the model, computed once
ParsedNetLine == [text \in NetLines |-> parse_network_filter(text)]
RECURSIVE ParseNetLines(_)
ParseNetLines(lines) ==
    IF lines = <<>> THEN <<>>
    ELSE ParsedNetLine[Head(lines)] \o ParseNetLines(Tail(lines))

MatcherInit ==
    /\ matcher = NetworkFilterMatcher
    /\ request \in Requests
    /\ call = "NetworkFilterMatcher"
    /\ ret = None
    /\ cosmetic = CosmeticFilterHandler
    /\ scriptlets = ScriptletHandler
    /\ loaded_lists = <<>>
    /\ EngineUnused
    /\ SingletonUnused

\* matcher.add_filters([parse_network_filter(line) for line in lines])
AddFilters(lines) ==
    /\ matcher._total_filters + Len(lines) <= MaxFilters
    /\ matcher' = add_filters(matcher, ParseNetLines(lines))
    /\ call' = "add_filters"
    /\ ret' = None
    /\ UNCHANGED <<request, cosmetic, scriptlets, loaded_lists, engine_vars, singleton_vars>>

\* ret = matcher.should_block(url, request_type, source_hostname)
ShouldBlock ==
    /\ ret' = should_block(matcher, request.url, request.request_type,
                           request.source_hostname)
    /\ matcher' = after_should_block(matcher, request.url, request.request_type,
                                     request.source_hostname)
    /\ call' = "should_block"
    /\ UNCHANGED <<request, cosmetic, scriptlets, loaded_lists, engine_vars, singleton_vars>>

MatcherNext ==
    \/ \E n \in 1..MaxBatch : \E lines \in [1..n -> NetLines] : AddFilters(lines)
    \/ ShouldBlock

SpecMatcher == MatcherInit /\ [][MatcherNext]_vars

(***************************************************************************)
(* Properties of the matcher                                               *)
(***************************************************************************)
\* a filter as it was parsed, whatever its _regex slot holds by now
Uncached(f) == [f EXCEPT !._regex = None]
BucketFilters(index) == UNION {Range(index[key]) : key \in DOMAIN index}
\* every filter the matcher holds, in whichever index it was put
AllLoaded(M) ==
    BucketFilters(M._hostname_index) \cup BucketFilters(M._exception_hostname_index)
    \cup Range(M._generic_filters) \cup Range(M._generic_exceptions)
\* the match predicate applied to the request under test
RequestMatches(f) ==
    _filter_matches(f, request.url, host_of_url(request.url), request.request_type,
                    request.source_hostname,
                    _is_third_party(host_of_url(request.url), request.source_hostname))
\* the matcher holds the filter of this line and nothing else
OnlyLoaded(text) ==
    /\ AllLoaded(matcher) # {}
    /\ \A f \in AllLoaded(matcher) : Uncached(f) = ParsedNetLine[text][1]
\* host b is host a or a subdomain of it, label by label
IsSuffix(a, b) == Len(a) <= Len(b) /\ SubSeq(b, Len(b) - Len(a) + 1, Len(b)) = a

\* C1: whenever some loaded exception filter matches the request, the
\* decision of should_block is Allow, whatever the order in which the filters
\* were added and whichever index (hostname or generic) holds them.
ExceptionWins ==
    call = "should_block"
    /\ (\E e \in AllLoaded(matcher) : e.is_exception /\ RequestMatches(e))
    => ~ret.blocked /\ ret.redirect = None

\* a hostname-indexed blocking filter and a generic exception both match the
\* request, and the call allowed it
ExceptionWinsWitness ==
    /\ call = "should_block"
    /\ \E b \in BucketFilters(matcher._hostname_index) : RequestMatches(b)
    /\ \E e \in Range(matcher._generic_exceptions) : RequestMatches(e)
    /\ ~ret.blocked

\* C5: with only ||H^ loaded, a URL scheme://host[:port]/path is blocked
\* exactly when host is H or a subdomain of H; notads.com is not blocked by
\* ||ads.com^.
AnchorBlocksHostAndSubdomains ==
    \A labels \in {h_ads_com, h_example_com} : \A parts \in UrlParts :
        call = "should_block" /\ OnlyLoaded(AnchorLine(labels))
        /\ request.url = UrlStr(parts)
        => /\ ret.blocked = IsSuffix(labels, parts.host)
           /\ ret.redirect = None

\* only ||ads.com^ is loaded and a URL on sub.ads.com was blocked
AnchorBlocksSubdomainWitness ==
    /\ call = "should_block"
    /\ OnlyLoaded(LineAds)
    /\ \E parts \in UrlParts :
           parts.host = h_sub_ads_com /\ request.url = UrlStr(parts)
    /\ ret.blocked

\* the request of the example: https://ads.example.com/x.js, SCRIPT, from src
ExampleRequest(src) ==
    request = [url |-> UrlStr([host |-> h_ads_example_com, port |-> <<>>,
                               path |-> <<"/">> \o x_js]),
               request_type |-> "script",
               source_hostname |-> HostStr(src)]

\* C6 as stated: with only ||ads.example.com^$third-party,script loaded the
\* example request is blocked from example.com and allowed from
\* ads.example.com.
ThirdPartyExampleAsStated ==
    call = "should_block" /\ OnlyLoaded(LineThirdParty)
    => /\ ExampleRequest(h_example_com) => ret.blocked /\ ret.redirect = None
       /\ ExampleRequest(h_ads_example_com) => ~ret.blocked

\* C6 amended: with only ||ads.example.com^$third-party,script loaded the
\* example request is allowed from example.com and from ads.example.com
\* (both share the last two labels of the URL host) and is blocked from
\* ads.com.
ThirdPartyExample ==
    call = "should_block" /\ OnlyLoaded(LineThirdParty)
    => /\ ExampleRequest(h_example_com) => ~ret.blocked
       /\ ExampleRequest(h_ads_example_com) => ~ret.blocked
       /\ ExampleRequest(h_ads_com) => ret.blocked /\ ret.redirect = None

\* the example request from example.com was decided with only that filter
\* loaded, and was allowed
ThirdPartyExampleWitness ==
    /\ call = "should_block"
    /\ OnlyLoaded(LineThirdParty)
    /\ ExampleRequest(h_example_com)
    /\ ~ret.blocked

\* the last two labels of a hostname
LastTwo(labels) ==
    IF Len(labels) >= 2 THEN SubSeq(labels, Len(labels) - 1, Len(labels)) ELSE labels
\* a source is given and its last two labels differ from the URL host's
ThirdParty(url_labels, src_labels) ==
    src_labels # <<>> /\ LastTwo(url_labels) # LastTwo(src_labels)

\* C7: the request is classified third-party exactly when a source hostname
\* is given and the last two labels differ, and a filter whose third_party
\* flag is set matches only requests whose classification equals the flag.
ThirdPartyClassification ==
    \A parts \in UrlParts : \A src \in SourceHosts :
        call = "should_block" /\ request.url = UrlStr(parts)
        /\ request.source_hostname = HostStr(src)
        => /\ _is_third_party(host_of_url(request.url), request.source_hostname)
              = ThirdParty(parts.host, src)
           /\ \A f \in AllLoaded(matcher) :
                  f.third_party # None /\ RequestMatches(f)
                  => f.third_party[1] = ThirdParty(parts.host, src)
           /\ ret.filter # None /\ ret.filter[1].third_party # None
              => ret.filter[1].third_party[1] = ThirdParty(parts.host, src)

\* a $third-party filter is loaded whose other conditions the request meets,
\* the request has no source hostname, and the call allowed it
ThirdPartyNoSourceWitness ==
    /\ call = "should_block"
    /\ OnlyLoaded(LineThirdParty)
    /\ request.source_hostname = None
    /\ request.request_type = "script"
    /\ \E parts \in UrlParts :
           parts.host = h_ads_example_com /\ request.url = UrlStr(parts)
    /\ ~ret.blocked

\* C8: a result that blocks names a loaded blocking filter that matches the
\* request and carries exactly that filter's redirect name (a name for
\* Redirect, none for Block); an Allow result carries no resource name.
ResultCarriesRedirectName ==
    call = "should_block"
    => /\ ret.blocked =>
              /\ ret.filter # None
              /\ ~ret.filter[1].is_exception
              /\ \E f \in AllLoaded(matcher) : Uncached(f) = Uncached(ret.filter[1])
              /\ RequestMatches(ret.filter[1])
              /\ ret.redirect = ret.filter[1].redirect
       /\ ~ret.blocked => ret.redirect = None

\* a call returned Redirect with the name of the filter it matched
RedirectResultWitness ==
    /\ call = "should_block"
    /\ ret.blocked
    /\ ret.redirect # None
    /\ ret.redirect = ret.filter[1].redirect

(***************************************************************************)
(* A CosmeticFilterHandler used on its own: cosmetic filters are parsed    *)
(* from lines and added, and get_selectors_for_domain is called on the     *)
(* hostname under test.                                                    *)
(***************************************************************************)
sel_ad == <<".","a","d">>
hide == <<"#","#">>
unhide == <<"#","@","#">>
\* ##.ad
CosGlobal == hide \o sel_ad
\* ads.com##.ad
CosAds == HostStr(h_ads_com) \o hide \o sel_ad
\* cdn.com##.ad
CosCdn == HostStr(h_cdn_com) \o hide \o sel_ad
\* ~sub.ads.com##.ad
CosNotSub == <<"~">> \o HostStr(h_sub_ads_com) \o hide \o sel_ad
\* ads.com#@#.ad
CosUnhideAds == HostStr(h_ads_com) \o unhide \o sel_ad
\* example.com#@#.ad
CosUnhideExample == HostStr(h_example_com) \o unhide \o sel_ad
\* ads.com,~sub.ads.com#@#.ad
CosUnhideAdsNotSub ==
    HostStr(h_ads_com) \o <<",","~">> \o HostStr(h_sub_ads_com) \o unhide \o sel_ad
\* #@#.ad
CosUnhideGlobal == unhide \o sel_ad

CosLines ==
    {CosGlobal, CosAds, CosCdn, CosNotSub, CosUnhideAds, CosUnhideExample,
     CosUnhideAdsNotSub, CosUnhideGlobal}
\* the labels of the hostnames asked about
CosHosts == {h_ads_com, h_sub_ads_com, h_notads_com, h_example_com, h_cdn_com, <<l_com>>}

\* parse_cosmetic_filter on every line of the model, computed once
ParsedCosLine == [text \in CosLines |-> parse_cosmetic_filter(text)]
RECURSIVE ParseCosLines(_)
ParseCosLines(lines) ==
    IF lines = <<>> THEN <<>>
    ELSE ParsedCosLine[Head(lines)] \o ParseCosLines(Tail(lines))

CosmeticInit ==
    /\ cosmetic = CosmeticFilterHandler
    /\ request \in [hostname : {HostStr(labels) : labels \in CosHosts}]
    /\ call = "CosmeticFilterHandler"
    /\ ret = None
    /\ matcher = NetworkFilterMatcher
    /\ scriptlets = ScriptletHandler
    /\ loaded_lists = <<>>
    /\ EngineUnused
    /\ SingletonUnused

\* cosmetic.add_filters([parse_cosmetic_filter(line) for line in lines])
CosmeticAddFilters(lines) ==
    /\ cosmetic._total_filters + Len(lines) <= MaxCosmetic
    /\ cosmetic' = cosmetic_add_filters(cosmetic, ParseCosLines(lines))
    /\ call' = "add_filters"
    /\ ret' = None
    /\ UNCHANGED <<request, matcher, scriptlets, loaded_lists, engine_vars, singleton_vars>>

\* ret = cosmetic.get_selectors_for_domain(hostname)
GetSelectorsForDomain ==
    /\ ret' = get_selectors_for_domain(cosmetic, request.hostname)
    /\ call' = "get_selectors_for_domain"
    /\ UNCHANGED <<cosmetic, request, matcher, scriptlets, loaded_lists, engine_vars, singleton_vars>>

CosmeticNext ==
    \/ \E n \in 1..MaxBatch : \E lines \in [1..n -> CosLines] : CosmeticAddFilters(lines)
    \/ GetSelectorsForDomain

SpecCosmetic == CosmeticInit /\ [][CosmeticNext]_vars

(***************************************************************************)
(* Properties of the cosmetic handler                                      *)
(***************************************************************************)
\* every cosmetic filter the handler holds
CosLoaded(H) ==
    Range(H._global_filters) \cup Range(H._global_exceptions)
    \cup BucketFilters(H._domain_filters) \cup BucketFilters(H._domain_exceptions)
\* the hostname itself and every parent domain of it, as strings
SelfAndParents(labels) == {HostStr(SubSeq(labels, i, Len(labels))) : i \in 1..Len(labels)}
\* the domain list of a cosmetic filter covers the hostname
Covers(f, labels) ==
    /\ SelfAndParents(labels) \cap f.excluded_domains = {}
    /\ f.domains = {} \/ SelfAndParents(labels) \cap f.domains # {}

\* C10: a loaded exception for selector S on domain D (with no excluded
\* domain) keeps S out of the selectors of D and of every subdomain of D; on
\* a hostname that is neither, where a loaded hiding filter with selector S
\* applies and no loaded exception for S covers the hostname, S is among the
\* selectors.
CosmeticExceptionScope ==
    \A labels \in CosHosts :
        call = "get_selectors_for_domain" /\ request.hostname = HostStr(labels)
        => \A e \in CosLoaded(cosmetic) : \A D \in e.domains :
               e.is_exception /\ e.excluded_domains = {}
               => IF D \in SelfAndParents(labels)
                  THEN e.selector \notin Range(ret)
                  ELSE /\ \E f \in CosLoaded(cosmetic) :
                              ~f.is_exception /\ f.selector = e.selector
                              /\ Covers(f, labels)
                       /\ \A x \in CosLoaded(cosmetic) :
                              x.is_exception /\ x.selector = e.selector
                              => ~Covers(x, labels)
                       => e.selector \in Range(ret)

\* ##.ad and ads.com#@#.ad are loaded, and .ad is not among the selectors of
\* sub.ads.com
CosmeticExceptionSubdomainWitness ==
    /\ call = "get_selectors_for_domain"
    /\ request.hostname = HostStr(h_sub_ads_com)
    /\ ParsedCosLine[CosGlobal][1] \in CosLoaded(cosmetic)
    /\ ParsedCosLine[CosUnhideAds][1] \in CosLoaded(cosmetic)
    /\ sel_ad \notin Range(ret)

\* ##.ad and ads.com#@#.ad are loaded, and .ad is among the selectors of
\* notads.com
CosmeticExceptionElsewhereWitness ==
    /\ call = "get_selectors_for_domain"
    /\ request.hostname = HostStr(h_notads_com)
    /\ ParsedCosLine[CosGlobal][1] \in CosLoaded(cosmetic)
    /\ ParsedCosLine[CosUnhideAds][1] \in CosLoaded(cosmetic)
    /\ sel_ad \in Range(ret)

(***************************************************************************)
(* A ScriptletHandler used on its own: scriptlet filters are parsed from   *)
(* lines and added, and get_scripts_for_domain is called on the hostname   *)
(* under test.                                                             *)
(***************************************************************************)
js == <<"#","#","+","j","s","(">>
\* ##+js(aopr, ads)
ScrGlobal == js \o <<"a","o","p","r",","," ","a","d","s",")">>
\* ~ads.com##+js(nowebrtc)
ScrNotAds == <<"~">> \o HostStr(h_ads_com) \o js \o <<"n","o","w","e","b","r","t","c",")">>
\* ads.com##+js(set, a, 1)
ScrAds == HostStr(h_ads_com) \o js \o <<"s","e","t",","," ","a",","," ","1",")">>
\* ads.com,~sub.ads.com##+js(rc, x)
ScrAdsNotSub ==
    HostStr(h_ads_com) \o <<",","~">> \o HostStr(h_sub_ads_com) \o js
    \o <<"r","c",","," ","x",")">>
\* cdn.com##+js(nosuch)
ScrUnknown == HostStr(h_cdn_com) \o js \o <<"n","o","s","u","c","h",")">>
\* example.com##+js(aeld
ScrUnclosed == HostStr(h_example_com) \o js \o <<"a","e","l","d">>

ScrLines == {ScrGlobal, ScrNotAds, ScrAds, ScrAdsNotSub, ScrUnknown, ScrUnclosed}

\* parse_scriptlet_filter on every line of the model, computed once
ParsedScrLine == [text \in ScrLines |-> parse_scriptlet_filter(text)]
RECURSIVE ParseScrLines(_)
ParseScrLines(lines) ==
    IF lines = <<>> THEN <<>>
    ELSE ParsedScrLine[Head(lines)] \o ParseScrLines(Tail(lines))

ScriptletInit ==
    /\ scriptlets = ScriptletHandler
    /\ request \in [hostname : {HostStr(labels) : labels \in CosHosts}]
    /\ call = "ScriptletHandler"
    /\ ret = None
    /\ matcher = NetworkFilterMatcher
    /\ cosmetic = CosmeticFilterHandler
    /\ loaded_lists = <<>>
    /\ EngineUnused
    /\ SingletonUnused

\* scriptlets.add_filters of the filters parse_scriptlet_filter made of the lines
ScriptletAddFilters(lines) ==
    /\ scriptlets._total_scriptlets + Len(lines) <= MaxScriptlets
    /\ scriptlets' = scriptlet_add_filters(scriptlets, ParseScrLines(lines))
    /\ call' = "add_filters"
    /\ ret' = None
    /\ UNCHANGED <<request, matcher, cosmetic, loaded_lists, engine_vars, singleton_vars>>

\* ret = scriptlets.get_scripts_for_domain(hostname)
GetScriptsForDomain ==
    /\ ret' = get_scripts_for_domain(scriptlets, request.hostname)
    /\ call' = "get_scripts_for_domain"
    /\ UNCHANGED <<scriptlets, request, matcher, cosmetic, loaded_lists, engine_vars, singleton_vars>>

ScriptletNext ==
    \/ \E n \in 1..MaxBatch : \E lines \in [1..n -> ScrLines] : ScriptletAddFilters(lines)
    \/ GetScriptsForDomain

SpecScriptlet == ScriptletInit /\ [][ScriptletNext]_vars

\* every filter the scriptlet index holds
ScrLoaded(H) == BucketFilters(H._domain_scriptlets)
\* the script get_scripts_for_domain would build for the filter
ScriptOf(f) == _build_script(_scriptlet_impl_name(f.scriptlet_name), f.args)

\* C11: a scriptlet filter without an included domain (no domain part, or
\* only excluded domains) is filed under no hostname of the index, and the
\* script it names is in the output of get_scripts_for_domain for no
\* hostname, whatever add_filters calls were made.
ScriptletNeedsDomain ==
    /\ \A f \in ScrLoaded(scriptlets) : f.domains # {}
    /\ call = "get_scripts_for_domain"
       => \A text \in ScrLines : \A f \in Range(ParsedScrLine[text]) :
              f.domains = {} => Range(ScriptOf(f)) \cap Range(ret) = {}

\* ##+js(aopr, ads) and ads.com##+js(set, a, 1) were added, and the scripts
\* of ads.com are that of set-constant alone
ScriptletNeedsDomainWitness ==
    /\ call = "get_scripts_for_domain"
    /\ request.hostname = HostStr(h_ads_com)
    /\ scriptlets._total_scriptlets = 2
    /\ ScrLoaded(scriptlets) = Range(ParsedScrLine[ScrAds])
    /\ ret = ScriptOf(ParsedScrLine[ScrAds][1])
    /\ ret # <<>>

(***************************************************************************)
(* The engine: coroutines call initialize or setup_page on one engine, and *)
(* the pages set up hand their requests to _handle_route.  The event loop  *)
(* runs a coroutine from one await to the next, so every action is the     *)
(* code between two awaits.  The engine holds _init_lock for the whole of  *)
(* get_filter_lists and is the only user of the manager, so the call       *)
(* completes in one step, with whatever the cache and the remote hold at   *)
(* that time.                                                              *)
(***************************************************************************)
nl == <<"\n">>
RECURSIVE TextOf(_)
TextOf(lines) == IF lines = <<>> THEN <<>> ELSE Head(lines) \o nl \o TextOf(Tail(lines))
\* ads.com##+js(aopr, x)
ScriptletAds ==
    HostStr(h_ads_com) \o <<"#","#","+","j","s","(","a","o","p","r",","," ","x",")">>
Comment == <<"!"," ","l","i","s","t">>

EasylistText == TextOf(<<Comment, LineAds, LineRedirect, LineRedirectUnknown, LineAllowOk>>)
EasyprivacyText == TextOf(<<LineThirdParty, CosGlobal, CosUnhideAds, ScriptletAds>>)
UblockFiltersText == TextOf(<<LineBanner>>)
AnnoyancesText == TextOf(<<LineExample>>)

\* nothing cached, nothing served
StoreNothing == [cache |-> <<>>, remote |-> <<>>]
\* easylist is cached, the remote serves nothing
StoreCached == [cache |-> << <<"easylist", EasylistText>> >>, remote |-> <<>>]
\* an empty ublock-privacy is cached, the remote serves every list, an empty
\* ublock-badware among them
StoreRemote ==
    [cache |-> << <<"ublock-privacy", <<>> >> >>,
     remote |-> << <<"easylist", EasylistText>>, <<"easyprivacy", EasyprivacyText>>,
                   <<"ublock-filters", UblockFiltersText>>, <<"ublock-badware", <<>> >>,
                   <<"ublock-annoyances", AnnoyancesText>> >>]
Stores == {StoreNothing, StoreCached, StoreRemote}

\* the list_names an engine is made with
ListNameChoices == {None, Some(<<"easyprivacy", "nosuch", "easylist">>)}

\* a request a page intercepts: its URL, its Playwright resource type and the
\* URL of its frame (None: no frame)
RouteRequests ==
    {[url |-> UrlStr([host |-> h_cdn_com, port |-> <<>>, path |-> <<"/","a",".","j","s">>]),
      resource_type |-> "script",
      frame |-> Some(https \o HostStr(h_example_com) \o <<"/">>)],
     [url |-> UrlStr([host |-> h_notads_com, port |-> <<>>, path |-> <<"/">> \o x_js]),
      resource_type |-> "script",
      frame |-> None],
     [url |-> UrlStr([host |-> h_ads_com, port |-> <<":","8","0","8","0">>,
                      path |-> <<"/","b","a","n","n","e","r">>]),
      resource_type |-> "image",
      frame |-> Some(https \o HostStr(h_ads_com) \o <<":","8","0","8","0","/">>)],
     [url |-> UrlStr([host |-> h_sub_ads_com, port |-> <<>>,
                      path |-> <<"/","o","k","/">> \o x_js]),
      resource_type |-> "beacon",
      frame |-> Some(<<>>)],
     [url |-> UrlStr([host |-> h_ads_example_com, port |-> <<>>, path |-> <<"/">> \o x_js]),
      resource_type |-> "script",
      frame |-> Some(https \o HostStr(h_ads_com) \o <<"/">>)],
     [url |-> <<"d","a","t","a",":",",","x">>,
      resource_type |-> "image",
      frame |-> None]}

EngineInit ==
    /\ engine \in {AdblockEngine(list_names) : list_names \in ListNameChoices}
    /\ manager = FilterListManager
    /\ tasks = [t \in 1..NumTasks |-> NoTask]
    /\ routes = [r \in 1..MaxRoutes |-> NoRoute]
    /\ loads = 0
    /\ UnitUnused
    /\ SingletonUnused

\* initialize has returned in task t: setup_page goes on to await page.route
Returned(t) ==
    [tasks EXCEPT ![t].pc = IF tasks[t].op = "setup_page" THEN "routing" ELSE "done"]

\* a coroutine is started on engine.initialize() or engine.setup_page(page)
Call(t, op) ==
    /\ tasks[t].pc = "idle"
    /\ tasks' = [tasks EXCEPT ![t].pc = "acquire", ![t].op = op]
    /\ UNCHANGED <<engine, manager, routes, loads, unit_vars, singleton_vars>>

\* initialize that takes the lock whether or not it is held
EnterUnlocked(t) ==
    /\ tasks[t].pc = "acquire"
    /\ IF engine._initialized
       THEN tasks' = Returned(t) /\ UNCHANGED engine
       ELSE /\ engine' = [engine EXCEPT !._init_lock = TRUE]
            /\ tasks' = [tasks EXCEPT ![t].pc = "fetching"]
    /\ UNCHANGED <<manager, routes, loads, unit_vars, singleton_vars>>

\* initialize from the acquisition of _init_lock to the await of
\* get_filter_lists, or to the return when the engine is initialized
Enter(t) ==
    /\ tasks[t].pc = "acquire"
    /\ ~engine._init_lock
    /\ IF engine._initialized
       THEN tasks' = Returned(t) /\ UNCHANGED engine
       ELSE /\ engine' = [engine EXCEPT !._init_lock = TRUE]
            /\ tasks' = [tasks EXCEPT ![t].pc = "fetching"]
    /\ UNCHANGED <<manager, routes, loads, unit_vars, singleton_vars>>

\* initialize from the return of get_filter_lists, which gave got, to its end
_initialize_with(t, got) ==
    /\ manager' = got.manager
    /\ engine' = _finish_initialize(engine, got.lists)
    /\ loads' = IF got.lists = <<>> THEN loads ELSE loads + 1
    /\ tasks' = Returned(t)
    /\ UNCHANGED <<routes, unit_vars, singleton_vars>>

\* get_filter_lists returns and initialize runs to its end
FetchReturns(t, store) ==
    /\ tasks[t].pc = "fetching"
    /\ _initialize_with(t, get_filter_lists(manager, engine._list_names, store))

\* get_filter_lists raises (an error the manager does not catch, or a
\* cancellation): the lock is released and initialize raises
FetchRaises(t) ==
    /\ tasks[t].pc = "fetching"
    /\ engine' = [engine EXCEPT !._init_lock = FALSE]
    /\ tasks' = [tasks EXCEPT ![t].pc = "failed"]
    /\ UNCHANGED <<manager, routes, loads, unit_vars, singleton_vars>>

\* setup_page after initialize: page.route returns and page.on is called
PageRouted(t) ==
    /\ tasks[t].pc = "routing"
    /\ tasks' = [tasks EXCEPT ![t].pc = "done", ![t].routed = TRUE]
    /\ UNCHANGED <<engine, manager, routes, loads, unit_vars, singleton_vars>>

\* the record of a run of _handle_route on the engine E that has reached its
\* await: what it decided and what it added to each counter
RouteRun(E, req, h) ==
    [pc |-> IF h.awaiting = "fulfill" THEN "fulfill" ELSE "done",
     request |-> Some(req),
     result |-> h.result,
     outcome |-> IF h.awaiting = "fulfill" THEN "none" ELSE h.awaiting,
     checked |-> h.engine._requests_checked - E._requests_checked,
     blocked |-> h.engine._requests_blocked - E._requests_blocked,
     redirected |-> h.engine._requests_redirected - E._requests_redirected]

\* the engine and the route r after the run h of _handle_route on req
_route_step(r, req, h) ==
    /\ engine' = h.engine
    /\ routes' = [routes EXCEPT ![r] = RouteRun(engine, req, h)]
    /\ UNCHANGED <<manager, tasks, loads, unit_vars, singleton_vars>>

\* a page that was set up hands a request to _handle_route, which runs to
\* the call on the route it awaits
HandleRoute(r, req) ==
    /\ \E t \in 1..NumTasks : tasks[t].routed
    /\ routes[r].pc = "none"
    /\ \A q \in 1..(r - 1) : routes[q].pc # "none"
    /\ _route_step(r, req, _handle_route(engine, req))

\* route.fulfill returns
FulfillReturns(r) ==
    /\ routes[r].pc = "fulfill"
    /\ routes' = [routes EXCEPT ![r].pc = "done", ![r].outcome = "fulfill"]
    /\ UNCHANGED <<engine, manager, tasks, loads, unit_vars, singleton_vars>>

\* route.fulfill raises: _handle_route goes on to block the request
FulfillRaises(r) ==
    /\ routes[r].pc = "fulfill"
    /\ engine' = _fulfill_failed(engine)
    /\ routes' = [routes EXCEPT ![r].pc = "done", ![r].outcome = "abort",
                                ![r].blocked = @ + 1]
    /\ UNCHANGED <<manager, tasks, loads, unit_vars, singleton_vars>>

EngineNext ==
    \/ \E t \in 1..NumTasks : \E op \in {"initialize", "setup_page"} : Call(t, op)
    \/ \E t \in 1..NumTasks : Enter(t)
    \/ \E t \in 1..NumTasks : \E store \in Stores : FetchReturns(t, store)
    \/ \E t \in 1..NumTasks : FetchRaises(t)
    \/ \E t \in 1..NumTasks : PageRouted(t)
    \/ \E r \in 1..MaxRoutes : \E req \in RouteRequests : HandleRoute(r, req)
    \/ \E r \in 1..MaxRoutes : FulfillReturns(r)
    \/ \E r \in 1..MaxRoutes : FulfillRaises(r)

SpecEngine == EngineInit /\ [][EngineNext]_vars

(***************************************************************************)
(* Properties of the engine                                                *)
(***************************************************************************)
\* the decision of the matcher for the request of a run
IsRedirect(run) ==
    run.result # None /\ run.result[1].blocked /\ run.result[1].redirect # None
IsBlock(run) ==
    run.result # None /\ run.result[1].blocked /\ run.result[1].redirect = None
IsAllow(run) == run.result # None /\ ~run.result[1].blocked
\* the run has evaluated its request and made its last call on the route
Evaluated(run) == run.pc = "done" /\ run.result # None

\* C2: a run whose decision is Redirect(name) does not abort the request and
\* does not count it as blocked, whatever the name and whether or not
\* route.fulfill succeeds.
RedirectNeverHardBlock ==
    \A r \in 1..MaxRoutes :
        Evaluated(routes[r]) /\ IsRedirect(routes[r])
        => routes[r].outcome # "abort" /\ routes[r].blocked = 0

\* C9: every evaluation adds exactly 1 to requests_checked, 1 to
\* requests_blocked exactly when the decision is Block and 1 to
\* requests_redirected exactly when the decision is Redirect; no request adds
\* to both requests_blocked and requests_redirected.
CountersFollowDecision ==
    \A r \in 1..MaxRoutes :
        Evaluated(routes[r])
        => /\ routes[r].checked = 1
           /\ routes[r].blocked = (IF IsBlock(routes[r]) THEN 1 ELSE 0)
           /\ routes[r].redirected = (IF IsRedirect(routes[r]) THEN 1 ELSE 0)
           /\ ~(routes[r].blocked > 0 /\ routes[r].redirected > 0)

\* no two entries of the list are the same filter
NoDuplicate(filters) ==
    \A i, j \in 1..Len(filters) : i # j => filters[i] # filters[j]
NoDuplicateIn(index) == \A key \in DOMAIN index : NoDuplicate(index[key])
\* the network filters of the list as they were parsed
AsParsed(filters) == [i \in 1..Len(filters) |-> Uncached(filters[i])]
NoDuplicateParsed(index) == \A key \in DOMAIN index : NoDuplicate(AsParsed(index[key]))
\* initialize has returned normally in the task
HasReturned(t) == tasks[t].pc \in {"routing", "done"}

\* C3: whatever the interleaving of the calls of initialize and setup_page
\* on the engine, at most one pass adds the parsed lists to the handlers, and
\* no index of the three handlers holds a filter twice.
AtMostOneLoad ==
    /\ loads <= 1
    /\ NoDuplicateParsed(engine._network_matcher._hostname_index)
    /\ NoDuplicateParsed(engine._network_matcher._exception_hostname_index)
    /\ NoDuplicate(AsParsed(engine._network_matcher._generic_filters))
    /\ NoDuplicate(AsParsed(engine._network_matcher._generic_exceptions))
    /\ NoDuplicate(engine._cosmetic_handler._global_filters)
    /\ NoDuplicate(engine._cosmetic_handler._global_exceptions)
    /\ NoDuplicateIn(engine._cosmetic_handler._domain_filters)
    /\ NoDuplicateIn(engine._cosmetic_handler._domain_exceptions)
    /\ NoDuplicateIn(engine._scriptlet_handler._domain_scriptlets)

\* two calls have returned, one load was made and the indices hold filters
AtMostOneLoadWitness ==
    /\ \E t1, t2 \in 1..NumTasks : t1 # t2 /\ HasReturned(t1) /\ HasReturned(t2)
    /\ loads = 1
    /\ engine._network_matcher._total_filters > 0
    /\ engine._cosmetic_handler._total_filters > 0
    /\ engine._scriptlet_handler._total_scriptlets > 0

\* the three handlers hold nothing
IndicesEmpty ==
    /\ engine._network_matcher = NetworkFilterMatcher
    /\ engine._cosmetic_handler = CosmeticFilterHandler
    /\ engine._scriptlet_handler = ScriptletHandler

\* C4: a call of initialize that has returned normally has left the engine
\* initialized, the handlers of a page are installed and a request is decided
\* only on an initialized engine, an engine that is not initialized holds no
\* filter, and when get_filter_lists returned nothing the engine is
\* initialized with empty indices.
ReturnedMeansReady ==
    /\ \A t \in 1..NumTasks : HasReturned(t) \/ tasks[t].routed => engine._initialized
    /\ \A r \in 1..MaxRoutes : routes[r].pc # "none" => engine._initialized
    /\ ~engine._initialized => IndicesEmpty
    /\ /\ manager._lists # None
       /\ get_filter_lists(manager, engine._list_names, StoreNothing).lists = <<>>
       => engine._initialized /\ IndicesEmpty

\* get_filter_lists returned nothing, a call has returned and the engine is
\* initialized with empty indices
ReadyWithNothingWitness ==
    /\ manager._lists = Some(<<>>)
    /\ \E t \in 1..NumTasks : HasReturned(t)
    /\ engine._initialized
    /\ IndicesEmpty

(***************************************************************************)
(* The singleton: each caller runs                                         *)
(*     engine = await get_adblock_engine(list_names)                       *)
(*     await engine.setup_page(page)                                       *)
(* on a page of its own, reset_adblock_engine is called at any time, and   *)
(* the pages hand their requests to the handler installed on them.  In a   *)
(* caller, ref is the engine initialize runs on while pc is "fetching" or  *)
(* "setup_fetching", and the value get_adblock_engine returned afterwards. *)
(* In a page, handler is the engine whose _handle_route was given to       *)
(* page.route, decided_by and result are the engine and the result of the  *)
(* last request decided, and stale tells that the engine that decided was  *)
(* not the singleton then and no engine made since was initialized.        *)
(***************************************************************************)
\* the requests the pages of the callers intercept
SingletonRequests == {req \in RouteRequests : req.resource_type \in {"image", "beacon"}}

SingletonInit ==
    /\ SingletonUnused
    /\ EngineUnused
    /\ UnitUnused

\* the singleton exists and is initialized
SingletonReady ==
    IF _adblock_engine = None THEN FALSE ELSE engines[_adblock_engine[1]]._initialized

\* a caller starts get_adblock_engine(list_names)
GetAdblockEngine(c, list_names) ==
    /\ callers[c].pc = "idle"
    /\ callers' = [callers EXCEPT ![c].pc = "lock", ![c].list_names = list_names]
    /\ UNCHANGED <<_adblock_engine, _engine_lock, engines, pages, engine_vars, unit_vars>>

\* get_adblock_engine takes _engine_lock and finds no engine: it makes one
\* and awaits its initialize, which runs to the await of get_filter_lists
CreateEngine(c) ==
    /\ callers[c].pc = "lock"
    /\ ~_engine_lock
    /\ _adblock_engine = None
    /\ Len(engines) < MaxEngines
    /\ engines' = Append(engines, [AdblockEngine(callers[c].list_names)
                                      EXCEPT !._init_lock = TRUE])
    /\ _adblock_engine' = Some(Len(engines) + 1)
    /\ _engine_lock' = TRUE
    /\ callers' = [callers EXCEPT ![c].pc = "fetching", ![c].ref = Some(Len(engines) + 1)]
    /\ UNCHANGED <<pages, engine_vars, unit_vars>>

\* get_adblock_engine takes _engine_lock, finds an engine and returns it
ReturnEngine(c) ==
    /\ callers[c].pc = "lock"
    /\ ~_engine_lock
    /\ _adblock_engine # None
    /\ callers' = [callers EXCEPT ![c].pc = "got", ![c].ref = _adblock_engine]
    /\ UNCHANGED <<_adblock_engine, _engine_lock, engines, pages, engine_vars, unit_vars>>

\* the caller after initialize has returned: get_adblock_engine releases
\* _engine_lock and returns the value the global holds now; setup_page goes
\* on to page.route
_after_initialize(caller, now) ==
    IF caller.pc = "fetching" THEN [caller EXCEPT !.pc = "got", !.ref = now]
    ELSE [caller EXCEPT !.pc = "routing"]

\* initialize of the caller's engine from the return of get_filter_lists on
_singleton_initialized(c, id, got) ==
    /\ manager' = got.manager
    /\ engines' = [engines EXCEPT ![id] = _finish_initialize(@, got.lists)]
    /\ _engine_lock' = IF callers[c].pc = "fetching" THEN FALSE ELSE _engine_lock
    /\ callers' = [callers EXCEPT ![c] = _after_initialize(@, _adblock_engine)]
    /\ UNCHANGED <<_adblock_engine, pages, engine, tasks, routes, loads, unit_vars>>

\* get_filter_lists returns in the initialize a caller awaits
InitializeReturns(c, store) ==
    /\ callers[c].pc \in {"fetching", "setup_fetching"}
    /\ _singleton_initialized(c, callers[c].ref[1],
           get_filter_lists(manager, engines[callers[c].ref[1]]._list_names, store))

\* get_filter_lists raises in the initialize a caller awaits: the locks are
\* released and the caller fails
InitializeRaises(c) ==
    /\ callers[c].pc \in {"fetching", "setup_fetching"}
    /\ engines' = [engines EXCEPT ![callers[c].ref[1]]._init_lock = FALSE]
    /\ _engine_lock' = IF callers[c].pc = "fetching" THEN FALSE ELSE _engine_lock
    /\ callers' = [callers EXCEPT ![c].pc = "failed"]
    /\ UNCHANGED <<_adblock_engine, pages, engine_vars, unit_vars>>

\* the caller calls setup_page on what get_adblock_engine returned; on None
\* the attribute lookup raises
SetupPage(c) ==
    /\ callers[c].pc = "got"
    /\ callers' = [callers EXCEPT
                      ![c].pc = IF callers[c].ref = None THEN "failed" ELSE "acquire"]
    /\ UNCHANGED <<_adblock_engine, _engine_lock, engines, pages, engine_vars, unit_vars>>

\* setup_page: initialize takes _init_lock and returns, or goes on to load
EnterInitialize(c) ==
    /\ callers[c].pc = "acquire"
    /\ ~engines[callers[c].ref[1]]._init_lock
    /\ IF engines[callers[c].ref[1]]._initialized
       THEN /\ callers' = [callers EXCEPT ![c].pc = "routing"]
            /\ UNCHANGED engines
       ELSE /\ callers' = [callers EXCEPT ![c].pc = "setup_fetching"]
            /\ engines' = [engines EXCEPT ![callers[c].ref[1]]._init_lock = TRUE]
    /\ UNCHANGED <<_adblock_engine, _engine_lock, pages, engine_vars, unit_vars>>

\* setup_page: page.route("**/*", self._handle_route) returns
RoutePage(c) ==
    /\ callers[c].pc = "routing"
    /\ callers' = [callers EXCEPT ![c].pc = "done"]
    /\ pages' = [pages EXCEPT ![c].handler = callers[c].ref]
    /\ UNCHANGED <<_adblock_engine, _engine_lock, engines, engine_vars, unit_vars>>

\* reset_adblock_engine()
ResetAdblockEngine ==
    /\ _adblock_engine' = None
    /\ UNCHANGED <<_engine_lock, engines, callers, pages, engine_vars, unit_vars>>

\* the engine after _handle_route has run to its end, fulfilled telling
\* whether route.fulfill returned
_route_done(h, fulfilled) ==
    IF h.awaiting = "fulfill" /\ ~fulfilled THEN _fulfill_failed(h.engine) ELSE h.engine

\* the page and the engine after the run h of the handler
_page_decided(c, id, h, fulfilled) ==
    /\ engines' = [engines EXCEPT ![id] = _route_done(h, fulfilled)]
    /\ pages' = [pages EXCEPT ![c].decided_by = Some(id), ![c].result = h.result,
                              ![c].stale = (_adblock_engine # Some(id) /\ ~SingletonReady)]
    /\ UNCHANGED <<_adblock_engine, _engine_lock, callers, engine_vars, unit_vars>>

\* the page of a caller hands a request to the handler installed on it
PageRequest(c, req, fulfilled) ==
    /\ pages[c].handler # None
    /\ engines[pages[c].handler[1]]._requests_checked < MaxRoutes
    /\ _page_decided(c, pages[c].handler[1],
                     _handle_route(engines[pages[c].handler[1]], req), fulfilled)

SingletonNext ==
    \/ \E c \in 1..NumCallers : \E list_names \in ListNameChoices : GetAdblockEngine(c, list_names)
    \/ \E c \in 1..NumCallers : CreateEngine(c)
    \/ \E c \in 1..NumCallers : ReturnEngine(c)
    \/ \E c \in 1..NumCallers : \E store \in Stores : InitializeReturns(c, store)
    \/ \E c \in 1..NumCallers : InitializeRaises(c)
    \/ \E c \in 1..NumCallers : SetupPage(c)
    \/ \E c \in 1..NumCallers : EnterInitialize(c)
    \/ \E c \in 1..NumCallers : RoutePage(c)
    \/ ResetAdblockEngine
    \/ \E c \in 1..NumCallers : \E req \in SingletonRequests : \E fulfilled \in BOOLEAN : PageRequest(c, req, fulfilled)

SpecSingleton == SingletonInit /\ [][SingletonNext]_vars

\* C12: between a reset and the completion of the next initialize no request
\* is decided with a filter that was loaded before the reset, on any page,
\* the pages set up before the reset included.
ResetDiscardsIndices ==
    \A c \in 1..NumCallers :
        pages[c].stale /\ pages[c].result # None => pages[c].result[1].filter = None

(***************************************************************************)
(* A matcher loaded from source lists: the dict of list contents is given  *)
(* to parse_all_filter_lists, the network filters it returns are added to  *)
(* a new NetworkFilterMatcher, and should_block is called on the request   *)
(* under test.  loaded_lists is the dict that was given, in its order.     *)
(***************************************************************************)
\* ||cdn.com^
LineCdn == AnchorLine(h_cdn_com)
\* the source lists: name and content
SourceLists ==
    {<<"base", TextOf(<<Comment, LineAds, LineBanner>>)>>,
     <<"redirects", TextOf(<<LineRedirect>>)>>,
     <<"hosts", TextOf(<<LineCdn, LineAllowOk>>)>>}
\* the dicts holding the lists of T, one for each order of insertion
Orderings(T) ==
    {lists \in [1..Cardinality(T) -> T] : \A i, j \in 1..Cardinality(T) : lists[i] = lists[j] => i = j}
SourceDicts == UNION {Orderings(T) : T \in SUBSET SourceLists \ {{}}}

\* a new matcher holding the network filters of the lists
matcher_of(lists) ==
    add_filters(NetworkFilterMatcher, parse_all_filter_lists(lists).network_filters)

\* matcher.add_filters(parse_all_filter_lists(lists).network_filters)
LoadLists(lists) ==
    /\ loaded_lists = <<>>
    /\ call = "NetworkFilterMatcher"
    /\ loaded_lists' = lists
    /\ matcher' = matcher_of(lists)
    /\ call' = "add_filters"
    /\ ret' = None
    /\ UNCHANGED <<request, cosmetic, scriptlets, engine_vars, singleton_vars>>

SourcesNext ==
    \/ \E lists \in SourceDicts : LoadLists(lists)
    \/ ShouldBlock

SpecSources == MatcherInit /\ [][SourcesNext]_vars

\* Allow, Block or Redirect with its name
Decision(result) == <<result.blocked, result.redirect>>
\* what should_block returns for the request under test when the lists were
\* given as the dict lists
DecisionOf(lists) ==
    Decision(should_block(matcher_of(lists), request.url, request.request_type,
                          request.source_hostname))

\* C13: the decision of should_block is the same for every order in which
\* the same source lists are given to parse_all_filter_lists.
SourceOrderIrrelevant ==
    call = "should_block" /\ loaded_lists # <<>>
        => \A lists \in Orderings(Range(loaded_lists)) : DecisionOf(lists) = Decision(ret)

(***************************************************************************)
(* should_block on URLs that urlparse rejects and on URLs without a host   *)
(***************************************************************************)
banner_path == <<"/","b","a","n","n","e","r">>
\* https://[ads.com/banner and https://ads.com]/x.js: urlparse raises
UrlOpenBracket == https \o <<"[">> \o HostStr(h_ads_com) \o banner_path
UrlCloseBracket == https \o HostStr(h_ads_com) \o <<"]", "/">> \o x_js
\* https:///banner and /banner: urlparse returns an empty netloc
UrlEmptyHost == https \o banner_path
UrlRelative == banner_path
\* https://ads.com:8080/banner
UrlBanner == https \o HostStr(h_ads_com) \o <<":","8","0","8","0">> \o banner_path
\* https://sub.ads.com/ok/x.js
UrlSubOk == https \o HostStr(h_sub_ads_com) \o <<"/","o","k","/">> \o x_js
FailOpenUrls ==
    {UrlOpenBracket, UrlCloseBracket, UrlEmptyHost, UrlRelative, UrlBanner, UrlSubOk}
FailOpenRequests ==
    [url : FailOpenUrls, request_type : {"None", "image"},
     source_hostname : {<<>>, HostStr(h_example_com)}]

FailOpenInit ==
    /\ matcher = NetworkFilterMatcher
    /\ request \in FailOpenRequests
    /\ call = "NetworkFilterMatcher"
    /\ ret = None
    /\ cosmetic = CosmeticFilterHandler
    /\ scriptlets = ScriptletHandler
    /\ loaded_lists = <<>>
    /\ EngineUnused
    /\ SingletonUnused

SpecFailOpen == FailOpenInit /\ [][MatcherNext]_vars

\* C14: should_block returns a MatchResult for every URL, and for every URL
\* on which urlparse raises the result is Allow without a filter, whatever
\* filters are loaded.
FailOpen ==
    call = "should_block"
        => /\ ret.blocked \in BOOLEAN
           /\ urlparse_raises(request.url) => ret = MatchResult(FALSE, None, None)
\* should_block has allowed https://[ads.com/banner with /banner loaded
FailOpenWitness ==
    /\ call = "should_block"
    /\ request.url = UrlOpenBracket
    /\ urlparse_raises(request.url)
    /\ \E f \in AllLoaded(matcher) : Uncached(f) = ParsedNetLine[LineBanner][1]
    /\ ret = MatchResult(FALSE, None, None)
\* C14 as stated: a URL from which no hostname can be parsed is allowed
FailOpenWithoutHostname ==
    call = "should_block" /\ (urlparse_raises(request.url) \/ host_of_url(request.url) = <<>>)
        => ~ret.blocked

(***************************************************************************)
(* The domain checks of the three kinds of filter, each applied to a       *)
(* filter parsed from a line and a hostname.  request holds the kind, the  *)
(* filter and the hostname, ret the outcome of the check.                  *)
(***************************************************************************)
domain_example == <<"$","d","o","m","a","i","n","=">> \o HostStr(h_example_com)
\* /banner$domain=example.com
LineDomain == banner_path \o domain_example
\* /banner$domain=~example.com
LineNotDomain == banner_path \o <<"$","d","o","m","a","i","n","=","~">> \o HostStr(h_example_com)
DomainNetLines == NetLines \cup {LineDomain, LineNotDomain}
ParsedDomainNetLine == [text \in DomainNetLines |-> parse_network_filter(text)]
DomainHosts == {HostStr(labels) : labels \in CosHosts}

DomainsInit ==
    /\ UnitUnused
    /\ EngineUnused
    /\ SingletonUnused

\* the domain check of _filter_matches for a network filter and a source
NetworkDomainCheck(text, source_hostname) ==
    /\ ParsedDomainNetLine[text] # None
    /\ request' = [kind |-> "network", filter |-> ParsedDomainNetLine[text][1],
                   hostname |-> source_hostname]
    /\ call' = "_filter_matches"
    /\ ret' = _domain_constraint(ParsedDomainNetLine[text][1], source_hostname)
    /\ UNCHANGED <<matcher, cosmetic, scriptlets, loaded_lists, engine_vars, singleton_vars>>

\* cosmetic._domain_matches for a cosmetic filter and a hostname
CosmeticDomainCheck(text, hostname) ==
    /\ ParsedCosLine[text] # None
    /\ request' = [kind |-> "cosmetic", filter |-> ParsedCosLine[text][1],
                   hostname |-> hostname]
    /\ call' = "cosmetic._domain_matches"
    /\ ret' = cosmetic_domain_matches(hostname, ParsedCosLine[text][1].domains,
                                      ParsedCosLine[text][1].excluded_domains)
    /\ UNCHANGED <<matcher, cosmetic, scriptlets, loaded_lists, engine_vars, singleton_vars>>

\* scriptlets._domain_matches for a scriptlet filter and a hostname
ScriptletDomainCheck(text, hostname) ==
    /\ ParsedScrLine[text] # None
    /\ request' = [kind |-> "scriptlet", filter |-> ParsedScrLine[text][1],
                   hostname |-> hostname]
    /\ call' = "scriptlets._domain_matches"
    /\ ret' = scriptlet_domain_matches(hostname, ParsedScrLine[text][1].domains,
                                       ParsedScrLine[text][1].excluded_domains)
    /\ UNCHANGED <<matcher, cosmetic, scriptlets, loaded_lists, engine_vars, singleton_vars>>

DomainsNext ==
    \/ \E text \in DomainNetLines : \E source_hostname \in Sources : NetworkDomainCheck(text, source_hostname)
    \/ \E text \in CosLines : \E hostname \in DomainHosts : CosmeticDomainCheck(text, hostname)
    \/ \E text \in ScrLines : \E hostname \in DomainHosts : ScriptletDomainCheck(text, hostname)

SpecDomains == DomainsInit /\ [][DomainsNext]_vars

\* the filter under check has no included and no excluded domain
Domainless == request.filter.domains = {} /\ request.filter.excluded_domains = {}
\* _filter_matches on the filter under check, for the source hostname s
MatchesFrom(url, request_type, s, is_third_party) ==
    _filter_matches(request.filter, url, host_of_url(url), request_type, s, is_third_party)

\* C15: for a filter of any kind with no included and no excluded domain the
\* domain check gives the same outcome for every hostname, the absent source
\* hostname of a network request included, and with the URL, the request
\* type and the party fixed a network filter matches for every source
\* hostname or for none.
DomainlessSameEverywhere ==
    /\ call = "_filter_matches" /\ Domainless
       => /\ \A s \in Sources : _domain_constraint(request.filter, s) = ret
          /\ \A url \in Urls : \A is_third_party \in BOOLEAN : \A s \in Sources :
                 MatchesFrom(url, "script", s, is_third_party)
                     = MatchesFrom(url, "script", request.hostname, is_third_party)
    /\ call = "cosmetic._domain_matches" /\ Domainless
       => \A h \in DomainHosts :
              cosmetic_domain_matches(h, request.filter.domains,
                                      request.filter.excluded_domains) = ret
    /\ call = "scriptlets._domain_matches" /\ Domainless
       => \A h \in DomainHosts :
              scriptlet_domain_matches(h, request.filter.domains,
                                       request.filter.excluded_domains) = ret
\* ||ads.com^ has passed the domain check without a source hostname
DomainlessWitness ==
    /\ call = "_filter_matches"
    /\ request.filter = ParsedDomainNetLine[LineAds][1]
    /\ Domainless
    /\ request.hostname = None
    /\ ret = TRUE

(***************************************************************************)
(* A CosmeticFilterHandler loaded from lines with different selectors,     *)
(* procedural ones among them.  loaded_lists holds the filters that were   *)
(* added, in the order of their insertion.                                 *)
(***************************************************************************)
has_b == <<":","h","a","s","(","b",")">>
\* ##.g
SelGlobal == hide \o <<".","g">>
\* ads.com##.a
SelAds == HostStr(h_ads_com) \o hide \o <<".","a">>
\* sub.ads.com##.b
SelSub == HostStr(h_sub_ads_com) \o hide \o <<".","b">>
\* sub.ads.com,ads.com##.c
SelBoth == HostStr(h_sub_ads_com) \o <<",">> \o HostStr(h_ads_com) \o hide \o <<".","c">>
\* ads.com##:has(b)
SelHasFirst == HostStr(h_ads_com) \o hide \o has_b
\* ads.com##a:has(b)
SelHasInside == HostStr(h_ads_com) \o hide \o <<"a">> \o has_b
\* ads.com##
SelEmpty == HostStr(h_ads_com) \o hide \o <<" ">>
SelLines == {SelGlobal, SelAds, SelSub, SelBoth, SelHasFirst, SelHasInside, SelEmpty}

ParsedSelLine == [text \in SelLines |-> parse_cosmetic_filter(text)]
RECURSIVE ParseSelLines(_)
ParseSelLines(lines) ==
    IF lines = <<>> THEN <<>>
    ELSE ParsedSelLine[Head(lines)] \o ParseSelLines(Tail(lines))

\* cosmetic.add_filters([f for f in map(parse_cosmetic_filter, lines) if f])
SelectorsAddFilters(lines) ==
    /\ cosmetic._total_filters + Len(lines) <= MaxCosmetic
    /\ cosmetic' = cosmetic_add_filters(cosmetic, ParseSelLines(lines))
    /\ loaded_lists' = loaded_lists \o ParseSelLines(lines)
    /\ call' = "add_filters"
    /\ ret' = None
    /\ UNCHANGED <<request, matcher, scriptlets, engine_vars, singleton_vars>>

\* ret = cosmetic.get_selectors_for_domain(hostname)
SelectorsFor ==
    /\ ret' = get_selectors_for_domain(cosmetic, request.hostname)
    /\ call' = "get_selectors_for_domain"
    /\ UNCHANGED <<cosmetic, request, matcher, scriptlets, loaded_lists, engine_vars, singleton_vars>>

SelectorsNext ==
    \/ \E n \in 1..MaxBatch : \E lines \in [1..n -> SelLines] : SelectorsAddFilters(lines)
    \/ SelectorsFor

SpecSelectors == CosmeticInit /\ [][SelectorsNext]_vars

\* the operators of procedural selectors
ProceduralOperators ==
    {<<":","h","a","s","(">>, <<":","x","p","a","t","h","(">>,
     <<":","m","a","t","c","h","e","s","-","c","s","s","(">>}
IsProcedural(selector) == \E op \in ProceduralOperators : Contains(selector, op)

\* C16: every cosmetic filter the parser produced, and every selector
\* get_selectors_for_domain returns, is non-empty and holds none of the
\* procedural operators :has( :xpath( :matches-css( at any position.
NoProceduralSelector ==
    /\ \A f \in CosLoaded(cosmetic) : f.selector # <<>> /\ ~IsProcedural(f.selector)
    /\ call = "get_selectors_for_domain"
       => \A i \in 1..Len(ret) : ret[i] # <<>> /\ ~IsProcedural(ret[i])

(***************************************************************************)
(* A NetworkFilterMatcher loaded from lines with domain= options and from  *)
(* hostname-anchored lines with a pattern after the hostname               *)
(***************************************************************************)
\* /banner$domain=example.com|~ads.example.com
LineDomainNotSub == LineDomain \o <<"|","~">> \o HostStr(h_ads_example_com)
\* ||ads.com/banner
LineAdsBanner == <<"|","|">> \o HostStr(h_ads_com) \o banner_path
\* ||ads.com^banner
LineAdsSepBanner == AnchorLine(h_ads_com) \o <<"b","a","n","n","e","r">>
\* ||ads.com/banner*
LineAdsBannerStar == LineAdsBanner \o <<"*">>
ConstraintLines ==
    {LineDomain, LineNotDomain, LineDomainNotSub, LineAdsBanner, LineAdsSepBanner,
     LineAdsBannerStar}
ConstraintUrls ==
    {UrlBanner, https \o HostStr(h_ads_com) \o banner_path,
     https \o HostStr(h_sub_ads_com) \o banner_path,
     https \o HostStr(h_notads_com) \o banner_path}
ConstraintRequests ==
    [url : ConstraintUrls, request_type : {"None"}, source_hostname : Sources]

ParsedConstraintLine == [text \in ConstraintLines |-> parse_network_filter(text)]
RECURSIVE ParseConstraintLines(_)
ParseConstraintLines(lines) ==
    IF lines = <<>> THEN <<>>
    ELSE ParsedConstraintLine[Head(lines)] \o ParseConstraintLines(Tail(lines))

ConstraintsInit ==
    /\ matcher = NetworkFilterMatcher
    /\ request \in ConstraintRequests
    /\ call = "NetworkFilterMatcher"
    /\ ret = None
    /\ cosmetic = CosmeticFilterHandler
    /\ scriptlets = ScriptletHandler
    /\ loaded_lists = <<>>
    /\ EngineUnused
    /\ SingletonUnused

\* matcher.add_filters([parse_network_filter(line) for line in lines])
AddConstraintFilters(lines) ==
    /\ matcher._total_filters + Len(lines) <= MaxFilters
    /\ matcher' = add_filters(matcher, ParseConstraintLines(lines))
    /\ call' = "add_filters"
    /\ ret' = None
    /\ UNCHANGED <<request, cosmetic, scriptlets, loaded_lists, engine_vars, singleton_vars>>

ConstraintsNext ==
    \/ \E n \in 1..MaxBatch : \E lines \in [1..n -> ConstraintLines] : AddConstraintFilters(lines)
    \/ ShouldBlock

SpecConstraints == ConstraintsInit /\ [][ConstraintsNext]_vars

\* the suffix variants of the source hostname of the request under test,
\* none when the request has no source hostname
SourceVariants ==
    IF request.source_hostname = None THEN {}
    ELSE Range(_get_hostname_variants(Lower(request.source_hostname)))
\* the domain constraints of f hold for the request under test
DomainsPass(f) ==
    /\ SourceVariants \cap f.excluded_domains = {}
    /\ f.domains # {} => SourceVariants \cap f.domains # {}

\* C17: the filter should_block reports for a request passes its domain
\* constraints on that request: no variant of the source hostname is
\* excluded, and with a non-empty include set some variant is included, so
\* that a request without source hostname matches no such filter.
DomainsEnforced ==
    call = "should_block" /\ ret.filter # None => DomainsPass(ret.filter[1])

\* the pattern of a hostname-anchored filter after its hostname
Remainder(f) ==
    IF StartsWith(f.pattern, f.hostname) THEN Drop(f.pattern, Len(f.hostname)) ELSE f.pattern
\* the remainder matches the URL: as a substring whatever the case when the
\* filter is plain, by a search of the remainder compiled otherwise
RemainderMatches(f, url) ==
    IF f.is_plain THEN _plain_matches(Remainder(f), url)
    ELSE _regex_matches(_pattern_to_regex(Remainder(f), f.is_regex), url)

\* C18: the URL-pattern check of a hostname-anchored filter with a hostname
\* holds exactly when the host of the URL is the hostname or a subdomain of
\* it and the pattern after the hostname matches the URL, for plain and for
\* non-plain filters, with or without a port in the URL.
AnchoredRemainderMatch ==
    call = "should_block"
        => \A f \in AllLoaded(matcher) :
               f.is_hostname_anchor /\ f.hostname # None
                   => _pattern_matches(Uncached(f), request.url)
                          = (_anchor_matches(f, request.url) /\ RemainderMatches(f, request.url))

(***************************************************************************)
(* The order of the search for the blocking filter                         *)
(***************************************************************************)
\* the suffix variants of the host of the URL under test, most specific first
UrlVariants == _get_hostname_variants(host_of_url(request.url))
\* the lists a search for a blocking filter goes through: the bucket of the
\* r-th variant, and after the last variant the generic list
BlockingList(r) ==
    IF r <= Len(UrlVariants) THEN IndexGet(matcher._hostname_index, UrlVariants[r])
    ELSE matcher._generic_filters
\* the places of the blocking filters: list and position in it
BlockingPlaces ==
    {p \in (1..(Len(UrlVariants) + 1)) \X (1..MaxFilters) : p[2] <= Len(BlockingList(p[1]))}
FilterAt(p) == BlockingList(p[1])[p[2]]
\* place p comes before place q in the order of the search
Before(p, q) == p[1] < q[1] \/ (p[1] = q[1] /\ p[2] < q[2])

\* C19: the filter should_block reports for a blocked request is the first
\* filter matching the request in the order: buckets of the hostname index
\* for the variants of the URL host from the most specific on, each in the
\* order of insertion, then the generic filters in the order of insertion.
FirstMatchReported ==
    call = "should_block" /\ ret.blocked
        => \E p \in BlockingPlaces :
               /\ Uncached(FilterAt(p)) = Uncached(ret.filter[1])
               /\ RequestMatches(FilterAt(p))
               /\ \A q \in BlockingPlaces : Before(q, p) => ~RequestMatches(FilterAt(q))
\* ||ads.example.com^$third-party,script was reported for a request that
\* ||example.com^ in the bucket of the parent domain matches as well
FirstMatchReportedWitness ==
    /\ call = "should_block"
    /\ ret.blocked
    /\ Len(UrlVariants) = 3
    /\ Len(BlockingList(1)) = 1 /\ RequestMatches(FilterAt(<<1, 1>>))
    /\ Len(BlockingList(2)) = 1 /\ RequestMatches(FilterAt(<<2, 1>>))
    /\ Uncached(ret.filter[1]) = ParsedNetLine[LineThirdParty][1]

(***************************************************************************)
(* The order of the selectors                                              *)
(***************************************************************************)
\* the selectors of the hiding filters of a list that apply to the hostname
\* under test, in the order of the list: the global ones (no included
\* domain) when indexed is FALSE, the domain-indexed ones when it is TRUE
RECURSIVE ApplicableSelectors(_, _)
ApplicableSelectors(filters, indexed) ==
    IF filters = <<>> THEN <<>>
    ELSE IF /\ (Head(filters).domains # {}) = indexed
            /\ ~Head(filters).is_exception
            /\ cosmetic_domain_matches(request.hostname, Head(filters).domains,
                                       Head(filters).excluded_domains)
    THEN <<Head(filters).selector>> \o ApplicableSelectors(Tail(filters), indexed)
    ELSE ApplicableSelectors(Tail(filters), indexed)

\* C20: get_selectors_for_domain returns the selectors of the applicable
\* global filters and after them those of the applicable domain-indexed
\* filters, each group in the order in which its filters were added.
SelectorsInInsertionOrder ==
    call = "get_selectors_for_domain"
        => ret = ApplicableSelectors(loaded_lists, FALSE) \o ApplicableSelectors(loaded_lists, TRUE)

(***************************************************************************)
(* A ScriptletHandler loaded from lines of which some list two domains of  *)
(* one hostname.  loaded_lists holds the filters that were added, in the   *)
(* order of their insertion.                                               *)
(***************************************************************************)
\* sub.ads.com,ads.com##+js(nowebrtc)
ScrBoth ==
    HostStr(h_sub_ads_com) \o <<",">> \o HostStr(h_ads_com) \o js
    \o <<"n","o","w","e","b","r","t","c",")">>
\* ads.com##+js(nosuch)
ScrAdsUnknown == HostStr(h_ads_com) \o js \o <<"n","o","s","u","c","h",")">>
ScriptLines == {ScrBoth, ScrAdsUnknown, ScrAds, ScrAdsNotSub, ScrGlobal}

ParsedScriptLine == [text \in ScriptLines |-> parse_scriptlet_filter(text)]
RECURSIVE ParseScriptLines(_)
ParseScriptLines(lines) ==
    IF lines = <<>> THEN <<>>
    ELSE ParsedScriptLine[Head(lines)] \o ParseScriptLines(Tail(lines))

\* scriptlets.add_filters of the filters parse_scriptlet_filter made of the lines
ScriptsAddFilters(lines) ==
    /\ scriptlets._total_scriptlets + Len(lines) <= MaxScriptlets
    /\ scriptlets' = scriptlet_add_filters(scriptlets, ParseScriptLines(lines))
    /\ loaded_lists' = loaded_lists \o ParseScriptLines(lines)
    /\ call' = "add_filters"
    /\ ret' = None
    /\ UNCHANGED <<request, matcher, cosmetic, engine_vars, singleton_vars>>

ScriptsNext ==
    \/ \E n \in 1..MaxBatch : \E lines \in [1..n -> ScriptLines] : ScriptsAddFilters(lines)
    \/ GetScriptsForDomain

SpecScripts == ScriptletInit /\ [][ScriptsNext]_vars

\* the added filters that apply to the hostname under test and whose script
\* is s, by their position in the order of insertion
AppliedWithScript(s) ==
    {i \in 1..Len(loaded_lists) :
        /\ scriptlet_domain_matches(Lower(request.hostname), loaded_lists[i].domains,
                                    loaded_lists[i].excluded_domains)
        /\ ScriptOf(loaded_lists[i]) = <<s>>}
\* every script an added filter can give
ScriptsOfLoaded == UNION {Range(ScriptOf(loaded_lists[i])) : i \in 1..Len(loaded_lists)}

\* C21: get_scripts_for_domain returns one script for each added filter that
\* applies to the hostname and names a registered scriptlet, and no other:
\* each script is in the result as many times as filters give it.
OneScriptPerFilter ==
    call = "get_scripts_for_domain"
        => \A s \in ScriptsOfLoaded \cup Range(ret) :
               Cardinality({k \in 1..Len(ret) : ret[k] = s}) = Cardinality(AppliedWithScript(s))

(***************************************************************************)
(* A CosmeticFilterHandler loaded from lines whose selectors hold quotes   *)
(* and backslashes; ret holds the selectors, the kept selectors of each    *)
(* rule and the text get_css_for_domain returns.                           *)
(***************************************************************************)
\* ##.g
CssPlain == hide \o <<".","g">>
\* ##[a='b']
CssSingle == hide \o <<"[","a","=","'","b","'","]">>
\* ##[a="b"]
CssDouble == hide \o <<"[","a","=","\"","b","\"","]">>
\* ##.x\.y[a='b']
CssSingleAndEscape == hide \o <<".","x","\\",".","y","[","a","=","'","b","'","]">>
\* ##[a=\"b\"]
CssEscapedDouble == hide \o <<"[","a","=","\\","\"","b","\\","\"","]">>
\* ads.com##.a
CssAds == HostStr(h_ads_com) \o hide \o <<".","a">>
CssLines == {CssPlain, CssSingle, CssDouble, CssSingleAndEscape, CssEscapedDouble, CssAds}

ParsedCssLine == [text \in CssLines |-> parse_cosmetic_filter(text)]
RECURSIVE ParseCssLines(_)
ParseCssLines(lines) ==
    IF lines = <<>> THEN <<>>
    ELSE ParsedCssLine[Head(lines)] \o ParseCssLines(Tail(lines))

\* cosmetic.add_filters([parse_cosmetic_filter(line) for line in lines])
CssAddFilters(lines) ==
    /\ cosmetic._total_filters + Len(lines) <= MaxCosmetic
    /\ cosmetic' = cosmetic_add_filters(cosmetic, ParseCssLines(lines))
    /\ call' = "add_filters"
    /\ ret' = None
    /\ UNCHANGED <<request, matcher, scriptlets, loaded_lists, engine_vars, singleton_vars>>

\* css = cosmetic.get_css_for_domain(hostname)
GetCssForDomain ==
    /\ ret' = _css_of(get_selectors_for_domain(cosmetic, request.hostname))
    /\ call' = "get_css_for_domain"
    /\ UNCHANGED <<cosmetic, request, matcher, scriptlets, loaded_lists, engine_vars, singleton_vars>>

CssNext ==
    \/ \E n \in 1..MaxBatch : \E lines \in [1..n -> CssLines] : CssAddFilters(lines)
    \/ GetCssForDomain

SpecCss == CosmeticInit /\ [][CssNext]_vars

\* a quote of the selector has no backslash before it
HasUnescapedQuote(sel) ==
    \E i \in 1..Len(sel) : sel[i] \in {"'", "\""} /\ (i = 1 \/ sel[i - 1] # "\\")
\* the selectors without unescaped quote, in order
RECURSIVE WithoutUnescapedQuote(_)
WithoutUnescapedQuote(selectors) ==
    IF selectors = <<>> THEN <<>>
    ELSE (IF HasUnescapedQuote(Head(selectors)) THEN <<>> ELSE <<Head(selectors)>>)
         \o WithoutUnescapedQuote(Tail(selectors))
\* the selectors of the rules one after the other
RECURSIVE Flatten(_)
Flatten(rules) == IF rules = <<>> THEN <<>> ELSE Head(rules) \o Flatten(Tail(rules))

\* C22: no rule of the css holds more than 100 selectors, the selectors of
\* the rules are those of get_selectors_for_domain without an unescaped
\* quote, all of them and in order, each rule has the form
\* "<selectors> { display: none !important; }", and the css is empty when
\* there is no selector.
CssKeepsSafeSelectors ==
    call = "get_css_for_domain"
        => /\ \A k \in 1..Len(ret.rules) : Len(ret.rules[k]) <= 100
           /\ Flatten(ret.rules) = WithoutUnescapedQuote(ret.selectors)
           /\ ret.css = _css_text(ret.rules)
           /\ ret.selectors = <<>> => ret.css = <<>>

(***************************************************************************)
(* A NetworkFilterMatcher loaded from lines of which some hold a regex     *)
(* that re.compile rejects                                                 *)
(***************************************************************************)
\* /banner(/
LineBadRegex == banner_path \o <<"(","/">>
\* @@/banner(/
LineBadException == <<"@","@">> \o LineBadRegex
\* /ban.er/
LineGoodRegex == <<"/","b","a","n",".","e","r","/">>
\* @@/banner
LineAllowBanner == <<"@","@">> \o banner_path
BadRegexLines ==
    {LineBadRegex, LineBadException, LineGoodRegex, LineAllowBanner, LineBanner, LineAds}
BadRegexRequests ==
    [url : {UrlBanner, https \o HostStr(h_ads_com) \o <<"/">> \o x_js},
     request_type : {"None"}, source_hostname : {<<>>, HostStr(h_example_com)}]

ParsedBadRegexLine == [text \in BadRegexLines |-> parse_network_filter(text)]
RECURSIVE ParseBadRegexLines(_)
ParseBadRegexLines(lines) ==
    IF lines = <<>> THEN <<>>
    ELSE ParsedBadRegexLine[Head(lines)] \o ParseBadRegexLines(Tail(lines))

BadRegexInit ==
    /\ matcher = NetworkFilterMatcher
    /\ request \in BadRegexRequests
    /\ call = "NetworkFilterMatcher"
    /\ ret = None
    /\ cosmetic = CosmeticFilterHandler
    /\ scriptlets = ScriptletHandler
    /\ loaded_lists = <<>>
    /\ EngineUnused
    /\ SingletonUnused

\* matcher.add_filters([parse_network_filter(line) for line in lines])
AddBadRegexFilters(lines) ==
    /\ matcher._total_filters + Len(lines) <= MaxFilters
    /\ matcher' = add_filters(matcher, ParseBadRegexLines(lines))
    /\ call' = "add_filters"
    /\ ret' = None
    /\ UNCHANGED <<request, cosmetic, scriptlets, loaded_lists, engine_vars, singleton_vars>>

BadRegexNext ==
    \/ \E n \in 1..MaxBatch : \E lines \in [1..n -> BadRegexLines] : AddBadRegexFilters(lines)
    \/ ShouldBlock

SpecBadRegex == BadRegexInit /\ [][BadRegexNext]_vars

\* re.compile rejects the pattern of the filter
FailsToCompile(f) == ~f.is_plain /\ ~_pattern_to_regex(f.pattern, f.is_regex).ok
\* the filters of a list whose pattern compiles, in order
RECURSIVE Compiling(_)
Compiling(filters) ==
    IF filters = <<>> THEN <<>>
    ELSE (IF FailsToCompile(Head(filters)) THEN <<>> ELSE <<Head(filters)>>)
         \o Compiling(Tail(filters))
\* the matcher without the filters whose pattern does not compile
WithoutFailing(M) ==
    [M EXCEPT !._hostname_index = [k \in DOMAIN @ |-> Compiling(@[k])],
              !._exception_hostname_index = [k \in DOMAIN @ |-> Compiling(@[k])],
              !._generic_filters = Compiling(@),
              !._generic_exceptions = Compiling(@)]
\* a result with the filter it reports as it was parsed
ResultAsParsed(result) ==
    IF result.filter = None THEN result
    ELSE [result EXCEPT !.filter = Some(Uncached(result.filter[1]))]

\* C23: should_block returns a result whatever filters fail to compile, the
\* filter it reports is never one whose pattern fails to compile, and the
\* result is the one the matcher gives without those filters: the other
\* filters are evaluated as if the failing ones were not loaded.
FailedCompileNeverMatches ==
    call = "should_block"
        => /\ ret.blocked \in BOOLEAN
           /\ ret.filter # None => ~FailsToCompile(ret.filter[1])
           /\ ResultAsParsed(ret)
                  = ResultAsParsed(should_block(WithoutFailing(matcher), request.url,
                                                request.request_type, request.source_hostname))
\* /banner(/ comes before /banner in the generic list, and the request for
\* https://ads.com:8080/banner was blocked by /banner
FailedCompileWitness ==
    /\ call = "should_block"
    /\ request.url = UrlBanner
    /\ Len(matcher._generic_filters) = 2
    /\ matcher._generic_filters[1] = ParsedBadRegexLine[LineBadRegex][1]
    /\ FailsToCompile(matcher._generic_filters[1])
    /\ ret = MatchResult(TRUE, ParsedBadRegexLine[LineBanner], None)

(***************************************************************************)
(* The three handlers of an engine, loaded once from the filter lists as   *)
(* initialize does and queried afterwards in any order.  loaded_lists is   *)
(* the dict that was parsed; it is empty until the handlers are loaded.    *)
(***************************************************************************)
QueryLists == {<<"easylist", EasylistText>>, <<"easyprivacy", EasyprivacyText>>}
QueryDicts == UNION {Orderings(T) : T \in SUBSET QueryLists \ {{}}}
QueryRequests == [url : Urls, request_type : {"script"}, source_hostname : {<<>>, HostStr(h_ads_com)}]
QueryHosts == {HostStr(labels) : labels \in CosHosts}

QueriesInit ==
    /\ UnitUnused
    /\ EngineUnused
    /\ SingletonUnused

\* initialize: the lists are parsed and their filters added to the handlers
LoadHandlers(lists) ==
    /\ loaded_lists = <<>>
    /\ loaded_lists' = lists
    /\ matcher' = add_filters(matcher, parse_all_filter_lists(lists).network_filters)
    /\ cosmetic' = cosmetic_add_filters(cosmetic, parse_all_filter_lists(lists).cosmetic_filters)
    /\ scriptlets' = scriptlet_add_filters(scriptlets, parse_all_filter_lists(lists).scriptlet_filters)
    /\ call' = "initialize"
    /\ ret' = None
    /\ UNCHANGED <<request, engine_vars, singleton_vars>>

\* ret = matcher.should_block(url, request_type, source_hostname)
QueryShouldBlock(req) ==
    /\ loaded_lists # <<>>
    /\ request' = req
    /\ ret' = should_block(matcher, req.url, req.request_type, req.source_hostname)
    /\ matcher' = after_should_block(matcher, req.url, req.request_type, req.source_hostname)
    /\ call' = "should_block"
    /\ UNCHANGED <<cosmetic, scriptlets, loaded_lists, engine_vars, singleton_vars>>

\* ret = cosmetic.get_selectors_for_domain(hostname)
QuerySelectors(hostname) ==
    /\ loaded_lists # <<>>
    /\ request' = [hostname |-> hostname]
    /\ ret' = get_selectors_for_domain(cosmetic, hostname)
    /\ call' = "get_selectors_for_domain"
    /\ UNCHANGED <<matcher, cosmetic, scriptlets, loaded_lists, engine_vars, singleton_vars>>

\* ret = cosmetic.get_css_for_domain(hostname)
QueryCss(hostname) ==
    /\ loaded_lists # <<>>
    /\ request' = [hostname |-> hostname]
    /\ ret' = get_css_for_domain(cosmetic, hostname)
    /\ call' = "get_css_for_domain"
    /\ UNCHANGED <<matcher, cosmetic, scriptlets, loaded_lists, engine_vars, singleton_vars>>

\* ret = scriptlets.get_scripts_for_domain(hostname)
QueryScripts(hostname) ==
    /\ loaded_lists # <<>>
    /\ request' = [hostname |-> hostname]
    /\ ret' = get_scripts_for_domain(scriptlets, hostname)
    /\ call' = "get_scripts_for_domain"
    /\ UNCHANGED <<matcher, cosmetic, scriptlets, loaded_lists, engine_vars, singleton_vars>>

QueriesNext ==
    \/ \E lists \in QueryDicts : LoadHandlers(lists)
    \/ \E req \in QueryRequests : QueryShouldBlock(req)
    \/ \E hostname \in QueryHosts : QuerySelectors(hostname)
    \/ \E hostname \in QueryHosts : QueryCss(hostname)
    \/ \E hostname \in QueryHosts : QueryScripts(hostname)

SpecQueries == QueriesInit /\ [][QueriesNext]_vars

\* the filter record g is the record f, but for the compiled-pattern slot,
\* which is as in f or was empty in f and holds the compiled pattern of f
SlotStep(f, g) ==
    /\ Uncached(g) = Uncached(f)
    /\ f._regex # None => g._regex = f._regex
    /\ f._regex = None /\ g._regex # None
           => /\ _pattern_to_regex(f.pattern, f.is_regex).ok
              /\ g._regex = Some(_pattern_to_regex(f.pattern, f.is_regex).toks)
ListStep(old, new) ==
    Len(old) = Len(new) /\ \A i \in 1..Len(old) : SlotStep(old[i], new[i])
IndexStep(old, new) ==
    DOMAIN old = DOMAIN new /\ \A k \in DOMAIN old : ListStep(old[k], new[k])
\* the handlers as they were loaded from the lists
LoadedMatcher ==
    add_filters(NetworkFilterMatcher, parse_all_filter_lists(loaded_lists).network_filters)
\* a query leaves the handlers as they are, but for compiled-pattern slots
QueryFrame ==
    loaded_lists # <<>>
        => /\ cosmetic' = cosmetic
           /\ scriptlets' = scriptlets
           /\ loaded_lists' = loaded_lists
           /\ IndexStep(matcher._hostname_index, matcher'._hostname_index)
           /\ IndexStep(matcher._exception_hostname_index, matcher'._exception_hostname_index)
           /\ ListStep(matcher._generic_filters, matcher'._generic_filters)
           /\ ListStep(matcher._generic_exceptions, matcher'._generic_exceptions)
           /\ matcher'._total_filters = matcher._total_filters
           /\ matcher'._hostname_indexed = matcher._hostname_indexed
\* the result of the last query is the one the handlers give as they were
\* loaded, whatever queries came before it
QueryResult ==
    /\ call = "should_block"
       => ResultAsParsed(ret)
              = ResultAsParsed(should_block(LoadedMatcher, request.url, request.request_type,
                                            request.source_hostname))
    /\ call \in {"get_selectors_for_domain", "get_css_for_domain", "get_scripts_for_domain"}
       => /\ cosmetic = cosmetic_add_filters(CosmeticFilterHandler,
                            parse_all_filter_lists(loaded_lists).cosmetic_filters)
          /\ scriptlets = scriptlet_add_filters(ScriptletHandler,
                              parse_all_filter_lists(loaded_lists).scriptlet_filters)

\* C24: once the handlers are loaded, every query leaves every index and
\* every filter record unchanged but for the compiled-pattern slot of a
\* filter, which goes from empty to the pattern of that filter compiled and
\* then stays; the result of a query depends on the query and on what was
\* loaded only, so two identical queries return the same.
QueriesArePure == [][QueryFrame]_vars /\ []QueryResult
\* a second should_block has run with a compiled pattern in a slot, and
\* reports the filter that holds it
QueriesArePureWitness ==
    /\ call = "should_block"
    /\ ret.blocked
    /\ ret.filter[1]._regex # None
    /\ \E f \in AllLoaded(matcher) : f._regex # None /\ f # ret.filter[1]

(***************************************************************************)
(* The counters of an engine                                               *)
(***************************************************************************)
CountersBounded ==
    engine._requests_blocked + engine._requests_redirected <= engine._requests_checked
CountersNotDecreasing ==
    /\ engine'._requests_checked >= engine._requests_checked
    /\ engine'._requests_blocked >= engine._requests_blocked
    /\ engine'._requests_redirected >= engine._requests_redirected

\* C25: in every state of an engine requests_blocked + requests_redirected
\* is at most requests_checked, and no step makes one of the three counters
\* smaller.
CountersWithinChecked == []CountersBounded /\ [][CountersNotDecreasing]_vars

(***************************************************************************)
(* What get_adblock_engine returns                                         *)
(***************************************************************************)
\* C26: every get_adblock_engine call that has returned holds an engine,
\* not None, and initialize has completed on that engine, whatever calls
\* and resets ran meanwhile and whether or not an earlier initialize raised.
ReturnedEngineIsReady ==
    \A c \in 1..NumCallers :
        callers[c].pc = "got"
            => callers[c].ref # None /\ engines[callers[c].ref[1]]._initialized

(***************************************************************************)
(* The index against a scan of every filter                                *)
(***************************************************************************)
\* the filters a linear scan finds matching the request under test
MatchingBlockers == {f \in AllLoaded(matcher) : ~f.is_exception /\ RequestMatches(f)}
MatchingExceptions == {f \in AllLoaded(matcher) : f.is_exception /\ RequestMatches(f)}
LinearScanBlocks == MatchingBlockers # {} /\ MatchingExceptions = {}

\* C27: for a URL that urlparse accepts, should_block returns blocked
\* exactly when some added blocking filter matches the request and no added
\* exception filter does, in whatever bucket the filters were placed; for a
\* URL that urlparse rejects it returns Allow without looking at a filter.
IndexFaithful ==
    call = "should_block"
        => ret.blocked = (IF urlparse_raises(request.url) THEN FALSE ELSE LinearScanBlocks)
\* https://sub.ads.com/ok/x.js was blocked by a filter of the bucket ads.com
IndexFaithfulWitness ==
    /\ call = "should_block"
    /\ request.url = UrlSubOk
    /\ \E f \in MatchingBlockers : f.hostname = HostStr(h_ads_com)
    /\ ret.blocked
\* C27 as stated: blocked exactly when the linear scan blocks, for every request
IndexFaithfulEveryRequest ==
    call = "should_block" => ret.blocked = LinearScanBlocks

(***************************************************************************)
(* Single-pipe anchors                                                     *)
(***************************************************************************)
\* /banner|
LineBannerAtEnd == banner_path \o <<"|">>
\* |ads
LineAdsAtStart == <<"|","a","d","s">>
\* |https://ads
LineHttpsAtStart == <<"|">> \o https \o <<"a","d","s">>
\* x.js|
LineScriptAtEnd == x_js \o <<"|">>
AnchorLines == {LineBannerAtEnd, LineAdsAtStart, LineHttpsAtStart, LineScriptAtEnd}
\* https://ads.com/banner/x.js
UrlBannerScript == https \o HostStr(h_ads_com) \o banner_path \o <<"/">> \o x_js
AnchorRequests ==
    [url : {UrlBanner, UrlBannerScript, https \o HostStr(h_ads_com) \o banner_path},
     request_type : {"None", "script"}, source_hostname : {<<>>, HostStr(h_example_com)}]

ParsedAnchorLine == [text \in AnchorLines |-> parse_network_filter(text)]
RECURSIVE ParseAnchorLines(_)
ParseAnchorLines(lines) ==
    IF lines = <<>> THEN <<>>
    ELSE ParsedAnchorLine[Head(lines)] \o ParseAnchorLines(Tail(lines))

AnchorsInit ==
    /\ matcher = NetworkFilterMatcher
    /\ request \in AnchorRequests
    /\ call = "NetworkFilterMatcher"
    /\ ret = None
    /\ cosmetic = CosmeticFilterHandler
    /\ scriptlets = ScriptletHandler
    /\ loaded_lists = <<>>
    /\ EngineUnused
    /\ SingletonUnused

AddAnchorFilters(lines) ==
    /\ matcher._total_filters + Len(lines) <= MaxFilters
    /\ matcher' = add_filters(matcher, ParseAnchorLines(lines))
    /\ call' = "add_filters"
    /\ ret' = None
    /\ UNCHANGED <<request, cosmetic, scriptlets, loaded_lists, engine_vars, singleton_vars>>

AnchorsNext ==
    \/ \E n \in 1..MaxBatch : \E lines \in [1..n -> AnchorLines] : AddAnchorFilters(lines)
    \/ ShouldBlock

SpecAnchors == AnchorsInit /\ [][AnchorsNext]_vars

\* the anchors of a plain filter hold on the URL: a left-anchored pattern is
\* at the very start, a right-anchored pattern at the very end
AnchorsHoldOn(f, url) ==
    /\ f.is_left_anchor => StartsWith(url, f.pattern)
    /\ f.is_right_anchor => EndsWith(url, f.pattern)

\* C28: a filter with a leading single pipe is reported for a URL only when
\* its pattern is at the very start of the URL, and a filter with a trailing
\* pipe only when its pattern is at the very end.
AnchorsEnforced ==
    call = "should_block" /\ ret.filter # None
        => AnchorsHoldOn(ret.filter[1], Lower(request.url))

(***************************************************************************)
(* The arguments of a scriptlet as JavaScript reads them                   *)
(***************************************************************************)
\* ads.com##+js(set, a'b)
ScrQuote == HostStr(h_ads_com) \o js \o <<"s","e","t",","," ","a","'","b",")">>
\* ads.com##+js(set, a\)
ScrBackslash == HostStr(h_ads_com) \o js \o <<"s","e","t",","," ","a","\\",")">>
\* ads.com##+js(set, a\'b)
ScrEscapedQuote == HostStr(h_ads_com) \o js \o <<"s","e","t",","," ","a","\\","'","b",")">>
\* sub.ads.com##+js(nowebrtc)
ScrSubNoArgs == HostStr(h_sub_ads_com) \o js \o <<"n","o","w","e","b","r","t","c",")">>
ArgLines == {ScrQuote, ScrBackslash, ScrEscapedQuote, ScrSubNoArgs, ScrAds, ScrGlobal}

ParsedArgLine == [text \in ArgLines |-> parse_scriptlet_filter(text)]
RECURSIVE ParseArgLines(_)
ParseArgLines(lines) ==
    IF lines = <<>> THEN <<>>
    ELSE ParsedArgLine[Head(lines)] \o ParseArgLines(Tail(lines))

\* scriptlets.add_filters of the filters parse_scriptlet_filter made of the lines
ArgsAddFilters(lines) ==
    /\ scriptlets._total_scriptlets + Len(lines) <= MaxScriptlets
    /\ scriptlets' = scriptlet_add_filters(scriptlets, ParseArgLines(lines))
    /\ loaded_lists' = loaded_lists \o ParseArgLines(lines)
    /\ call' = "add_filters"
    /\ ret' = None
    /\ UNCHANGED <<request, matcher, cosmetic, engine_vars, singleton_vars>>

ArgsNext ==
    \/ \E n \in 1..MaxBatch : \E lines \in [1..n -> ArgLines] : ArgsAddFilters(lines)
    \/ GetScriptsForDomain

SpecScriptArgs == ScriptletInit /\ [][ArgsNext]_vars

\* The argument list of a call as JavaScript reads it: None when the text
\* is not a list of single-quoted string literals separated by commas,
\* otherwise Some(the values of the literals).  Inside a literal a
\* backslash takes the next character as it is, and a quote ends it.
RECURSIVE JsRead(_, _, _, _)
JsRead(text, mode, cur, acc) ==
    IF mode = "start"
    THEN IF text # <<>> /\ Head(text) = "'" THEN JsRead(Tail(text), "in", <<>>, acc)
         ELSE IF text # <<>> /\ Head(text) = " " THEN JsRead(Tail(text), "start", cur, acc)
         ELSE None
    ELSE IF mode = "in"
    THEN IF text = <<>> THEN None
         ELSE IF Head(text) = "'" THEN JsRead(Tail(text), "after", <<>>, Append(acc, cur))
         ELSE IF Head(text) = "\\"
         THEN IF Len(text) < 2 THEN None
              ELSE JsRead(Drop(text, 2), "in", Append(cur, text[2]), acc)
         ELSE JsRead(Tail(text), "in", Append(cur, Head(text)), acc)
    ELSE IF text = <<>> THEN Some(acc)
         ELSE IF Head(text) = "," THEN JsRead(Tail(text), "start", cur, acc)
         ELSE None
JsArguments(text) == IF text = <<>> THEN Some(<<>>) ELSE JsRead(text, "start", <<>>, <<>>)

\* the added filters that apply to the hostname under test and name a
\* registered scriptlet, by their position in the order of insertion
AppliedScriptlets ==
    {i \in 1..Len(loaded_lists) :
        /\ scriptlet_domain_matches(Lower(request.hostname), loaded_lists[i].domains,
                                    loaded_lists[i].excluded_domains)
        /\ ScriptOf(loaded_lists[i]) # <<>>}

\* C29: for every applicable scriptlet filter the result holds an invocation
\* of its template whose argument list JavaScript reads as exactly the
\* parsed arguments of the filter, one string literal for each.
ArgumentsAreLiterals ==
    call = "get_scripts_for_domain"
        => \A i \in AppliedScriptlets :
               \E k \in 1..Len(ret) :
                   /\ ret[k].impl = _scriptlet_impl_name(loaded_lists[i].scriptlet_name)
                   /\ JsArguments(ret[k].args_str) = Some(loaded_lists[i].args)

(***************************************************************************)
(* One FilterListManager asked for lists several times.  request holds the *)
(* names of the last call and what the cache directory and the remote      *)
(* hold, which stays as it is from call to call; ret holds the dict the    *)
(* last call returned.                                                     *)
(***************************************************************************)
ManagerListNames ==
    {None, Some(<<"easyprivacy", "nosuch", "easylist">>), Some(<<"ublock-annoyances">>),
     Some(<<"ublock-filters", "easylist">>), Some(<<"ublock-privacy", "ublock-badware">>),
     Some(<<"easylist">>), Some(<<"easyprivacy">>), Some(<<"ublock-annoyances", "easylist">>),
     Some(<<>>)}

\* ublock-annoyances and easyprivacy are cached, the remote serves easylist
StoreTwoCached ==
    [cache |-> << <<"ublock-annoyances", AnnoyancesText>>, <<"easyprivacy", EasyprivacyText>> >>,
     remote |-> << <<"easylist", EasylistText>> >>]
ManagerStores == Stores \cup {StoreTwoCached}

ManagerInit ==
    /\ manager = FilterListManager
    /\ request \in [list_names : {None}, store : ManagerStores]
    /\ call = "FilterListManager"
    /\ ret = None
    /\ engine = AdblockEngine(None)
    /\ tasks = [t \in 1..NumTasks |-> NoTask]
    /\ routes = [r \in 1..MaxRoutes |-> NoRoute]
    /\ loads = 0
    /\ matcher = NetworkFilterMatcher
    /\ cosmetic = CosmeticFilterHandler
    /\ scriptlets = ScriptletHandler
    /\ loaded_lists = <<>>
    /\ SingletonUnused

\* the manager and the result after get_filter_lists has returned got
_lists_returned(got) ==
    /\ manager' = got.manager
    /\ ret' = got.lists

\* ret = await manager.get_filter_lists(list_names)
GetFilterLists(list_names) ==
    /\ _lists_returned(get_filter_lists(manager, list_names, request.store))
    /\ request' = [request EXCEPT !.list_names = list_names]
    /\ call' = "get_filter_lists"
    /\ UNCHANGED <<matcher, cosmetic, scriptlets, loaded_lists, engine, tasks, routes, loads, singleton_vars>>

ManagerNext == \E list_names \in ManagerListNames : GetFilterLists(list_names)

SpecManager == ManagerInit /\ [][ManagerNext]_vars

\* the names a call asks for
NamesAsked(list_names) == IF list_names = None THEN DEFAULT_LISTS ELSE list_names[1]
\* the cache directory holds the list, or the remote serves a text for it
Obtainable(name, store) ==
    \/ name \in DictKeys(store.cache)
    \/ name \in DictKeys(store.remote) /\ DictGet(store.remote, name) # <<>>

\* C30: every get_filter_lists call returns an entry for every known name
\* it was asked for whose text the cache or the remote gives, whatever
\* names the earlier calls on the manager asked for.
EveryObtainableListReturned ==
    call = "get_filter_lists"
        => \A name \in Range(NamesAsked(request.list_names)) \cap FILTER_LISTS :
               Obtainable(name, request.store) => name \in DictKeys(ret)

====
